---------------------------- MODULE Spec2Model ----------------------------
(***************************************************************************)
(* A model of the orchestration core of best-content-optimizer             *)
(* (src/index.tsx): the concurrency-bounded batch runner                   *)
(* processConcurrently, the retrying invoker callAiWithRetry, the          *)
(* ContentCache, the internal-link subsystem and the finalize stage of     *)
(* generateContent.                                                        *)
(*                                                                         *)
(* Each component has its own specification (SpecBatch, SpecRetry, ...)    *)
(* over its own group of variables; the variables of the other components  *)
(* stay at their idle values under it.                                     *)
(***************************************************************************)
EXTENDS Integers, Sequences, FiniteSets, Bags, TLC

VARIABLES
    \* ---- processConcurrently (src/index.tsx:793-823)
    items,          \* the items argument: a sequence of item ids
    falsy,          \* the ids of the items whose value is falsy in JavaScript
    concurrency,    \* the concurrency argument
    hasStop,        \* whether a shouldStop callback was passed
    stopRef,        \* what shouldStop() returns at this instant
    queue,          \* const queue = [...items]
    completed,      \* let completed = 0
    launched,       \* Array(concurrency).fill(null).map(run) has been evaluated
    wstate,         \* per worker: "awaiting" | "exited" | "rejected" ("idle" before launch)
    witem,          \* per worker: the item its processor invocation is working on
    runner,         \* the returned promise: "pending" | "resolved" | "rejected"
    started,        \* history: the items processor was invoked with, in order
    reports,        \* history: the onProgress(completed, total) calls, in order
    stopSeen,       \* history: shouldStop() has returned true to a worker
    startedAfterStop,   \* history: a processor invocation began after stopSeen
    startedAfterSettle, \* history: a processor invocation began after the runner settled
    settledCount,       \* history: the processor invocations that have settled
    finishedAfterStop,  \* history: a processor invocation settled after stopSeen
    \* ---- callAiWithRetry (src/index.tsx:426-493)
    maxRetries,     \* the maxRetries argument
    initialDelay,   \* the initialDelay argument (ms)
    attempt,        \* the loop variable
    rpc,            \* "start" | "call" | "waiting" | "returned" | "thrown"
    calls,          \* history: the number of apiCall() invocations
    lastErr,        \* the error caught from the latest failed invocation
    thrown,         \* what callAiWithRetry threw: an error record or GenericError
    delay,          \* the delay computed for the pending setTimeout (ms)
    waited,         \* the time the latest completed wait took (ms)
    nwaits,         \* history: the number of waits begun
    allRetriable,   \* history: every invocation so far failed with a retriable error
    \* ---- ContentCache (src/index.tsx:185-202)
    cache,          \* private cache = new Map(): key -> entry
    now,            \* Date.now() (ms)
    nticks,         \* history: the number of clock steps taken
    setLog,         \* history: the set(key, data) calls, as <<key, data, time>>
    lastGet,        \* the latest get(key): its key, time, result and Len(setLog)
    \* ---- the internal-link functions (src/index.tsx:832-1066)
    linput,         \* the content the first function was given
    lpages,         \* the availablePages argument of every call
    lmin,           \* the minLinks argument of enforceInternalLinkQuota
    lcontent,       \* the content: the result of the latest call
    lprev,          \* the argument of the latest call
    ltrace,         \* history: the functions applied so far, in order
    \* ---- generateContent for one item (src/index.tsx:4005-4547)
    gtype,          \* item.type: "standard" | "pillar" | "link-optimizer"
    gpages,         \* existingPages
    gserper,        \* apiKeys.serperApiKey && apiKeyStatus.serper === 'valid'
    gstatus,        \* item.status: "idle" | "generating" | "done" | "error"
    gpc,            \* the await generateContent is suspended at ("idle", "end": none)
    gstop,          \* stopGenerationRef.current.has(item.id)
    gfinal,         \* contentParts joined / finalContent
    gimages,        \* updatedImageDetails.length
    gi,             \* the index i of the image loop
    gout,           \* item.generatedContent: whether set, and its content
    ggate,          \* what the word-count gate measured and raised
    \* ---- extractJson (src/index.tsx:230-339)
    jtext,          \* the text argument
    jdoc,           \* history: the JSON document the text was made from
    jkind,          \* history: how: "plain" | "embedded" | "truncated"
    jpc,            \* "start" | "done"
    jres,           \* the outcome: whether it threw, and the string returned
    \* ---- generateContent for a batch of items (src/index.tsx:4005-4547)
    itemsToGenerate,        \* itemsToGenerate.length
    itemType,               \* item.type of each item
    hadContent,             \* whether the items hold the content of an older run
    serperValid,            \* apiKeys.serperApiKey && apiKeyStatus.serper === 'valid'
    itemStatus,             \* item.status of each item
    itemContent,            \* item.generatedContent of each item, by its origin
    stopGenerationRef,      \* stopGenerationRef.current
    itemIndex,              \* the position of the loop over the items
    awaiting,               \* the await the run is suspended at
    loopIndex,              \* the index i of the inner loop the run is in
    published,              \* history: the stages the item's run has published
    generatedCount,         \* generatedCount
    generationProgress,     \* the last setGenerationProgress
    isGenerating,           \* the last setIsGenerating
    failed,                 \* history: how the run of each item failed
    stoppedWhileGenerating, \* history: the items stopped while the run was on them
    \* ---- fetchWordPressWithRetry (src/index.tsx:613-723)
    hasAuthHeader,          \* options.headers.has('Authorization')
    wpAwaiting,             \* the fetch the call is suspended at
    wpAttempts,             \* history: the fetches made, and how each settled
    wpLastError,            \* lastError
    wpResult,               \* what the call returned or threw
    \* ---- fetchWithProxies (src/index.tsx:505-601)
    fpAwaiting,             \* the fetch the call is suspended at
    fpAttempts,             \* history: the fetches made, and how each settled
    fpLastError,            \* lastError: its message and (history) its attempt
    fpResult,               \* what the call returned or threw
    \* ---- App: the items reducer, the generate/stop handlers, the runs
    uiItems,                \* items, the state of itemsReducer
    uiStopRef,              \* stopGenerationRef.current
    uiIsGenerating,         \* isGenerating
    uiRuns,                 \* the bag of generateContent calls not yet returned
    uiReview,               \* selectedItemForReview: the id of the item, or "none"
    uiStopPending,          \* history: the ids stopped while a call was generating them
    \* ---- the bulk handlers on processConcurrently (2639-2658, 3242-3304)
    bulkOp,                 \* the handler: "publish" | "analyze"
    bulkStatus,             \* the status shown for each item (publishState, page.status)
    bulkFailed,             \* history: the items whose processing failed
    bulkHandler,            \* the handler's call: "idle" | "awaiting" | "returned" | "crashed"
    bulkBusy,               \* isPublishing / isAnalyzingHealth
    \* ---- enforceUniqueVideoEmbeds (src/index.tsx:1254-1290)
    vcontent,               \* the content argument
    vvideos,                \* the youtubeVideos argument
    vout,                   \* the returned content
    vpc,                    \* "off", "start" or "returned"
    \* ---- generateContent's research stages over one session (4109-4193)
    sesSerperValid,         \* apiKeys.serperApiKey && apiKeyStatus.serper === 'valid'
    sesCache,               \* the keys apiCache holds a value for
    sesHist,                \* history: per generation its title, external calls and result
    sesPc                   \* the await the running generation is suspended at

batchVars == <<items, falsy, concurrency, hasStop, stopRef, queue, completed,
               launched, wstate, witem, runner, started, reports, stopSeen,
               startedAfterStop, startedAfterSettle, settledCount,
               finishedAfterStop>>

retryVars == <<maxRetries, initialDelay, attempt, rpc, calls, lastErr, thrown,
               delay, waited, nwaits, allRetriable>>

cacheVars == <<cache, now, nticks, setLog, lastGet>>

linkVars == <<linput, lpages, lmin, lcontent, lprev, ltrace>>

genVars == <<gtype, gpages, gserper, gstatus, gpc, gstop, gfinal, gimages, gi,
             gout, ggate>>

jsonVars == <<jtext, jdoc, jkind, jpc, jres>>

runVars == <<itemsToGenerate, itemType, hadContent, serperValid, itemStatus,
             itemContent, stopGenerationRef, itemIndex, awaiting, loopIndex,
             published, generatedCount, generationProgress, isGenerating,
             failed, stoppedWhileGenerating>>

wpVars == <<hasAuthHeader, wpAwaiting, wpAttempts, wpLastError, wpResult>>

fpVars == <<fpAwaiting, fpAttempts, fpLastError, fpResult>>

uiVars == <<uiItems, uiStopRef, uiIsGenerating, uiRuns, uiReview,
            uiStopPending>>

bulkVars == <<bulkOp, bulkStatus, bulkFailed, bulkHandler, bulkBusy>>

vidVars == <<vcontent, vvideos, vout, vpc>>

sesVars == <<sesSerperValid, sesCache, sesHist, sesPc>>

vars == <<batchVars, retryVars, cacheVars, linkVars, genVars, jsonVars,
          runVars, wpVars, fpVars, uiVars, bulkVars, vidVars, sesVars>>

\* What each component leaves alone (the bulk handlers run
\* processConcurrently, so they own its variables too)
notBatch == <<retryVars, cacheVars, linkVars, genVars, jsonVars, runVars,
              wpVars, fpVars, uiVars, bulkVars, vidVars, sesVars>>
notRetry == <<batchVars, cacheVars, linkVars, genVars, jsonVars, runVars,
              wpVars, fpVars, uiVars, bulkVars, vidVars, sesVars>>
notCache == <<batchVars, retryVars, linkVars, genVars, jsonVars, runVars,
              wpVars, fpVars, uiVars, bulkVars, vidVars, sesVars>>
notLinks == <<batchVars, retryVars, cacheVars, genVars, jsonVars, runVars,
              wpVars, fpVars, uiVars, bulkVars, vidVars, sesVars>>
notGen == <<batchVars, retryVars, cacheVars, linkVars, jsonVars, runVars,
            wpVars, fpVars, uiVars, bulkVars, vidVars, sesVars>>
notJson == <<batchVars, retryVars, cacheVars, linkVars, genVars, runVars,
             wpVars, fpVars, uiVars, bulkVars, vidVars, sesVars>>
notRun == <<batchVars, retryVars, cacheVars, linkVars, genVars, jsonVars,
            wpVars, fpVars, uiVars, bulkVars, vidVars, sesVars>>
notWp == <<batchVars, retryVars, cacheVars, linkVars, genVars, jsonVars,
           runVars, fpVars, uiVars, bulkVars, vidVars, sesVars>>
notFp == <<batchVars, retryVars, cacheVars, linkVars, genVars, jsonVars,
           runVars, wpVars, uiVars, bulkVars, vidVars, sesVars>>
notUi == <<batchVars, retryVars, cacheVars, linkVars, genVars, jsonVars,
           runVars, wpVars, fpVars, bulkVars, vidVars, sesVars>>
notBulk == <<retryVars, cacheVars, linkVars, genVars, jsonVars, runVars,
             wpVars, fpVars, uiVars, vidVars, sesVars>>
notVid == <<batchVars, retryVars, cacheVars, linkVars, genVars, jsonVars,
            runVars, wpVars, fpVars, uiVars, bulkVars, sesVars>>
notSes == <<batchVars, retryVars, cacheVars, linkVars, genVars, jsonVars,
            runVars, wpVars, fpVars, uiVars, bulkVars, vidVars>>

---------------------------------------------------------------------------
(* Bounds of the model *)
MaxItems == 4
MaxConc == 3
MaxRetriesArg == 3
MaxSegs == 2
MaxPages == 2
MaxMinLinks == 2
MaxDraftSegs == 2
MaxImages == 2
MaxTicks == 3
MaxSets == 2

---------------------------------------------------------------------------
(***************************************************************************)
(* processConcurrently                                                     *)
(***************************************************************************)

\* A total read from the queue, which shrinks as the items are taken
totalOfQueue == Len(queue)

\* const total = items.length
total == Len(items)

\* A run with one worker too many
NumWorkersOffByOne(c) == c + 1

\* Array(concurrency): the number of workers that are created
NumWorkers(c) == c

Workers == 1..NumWorkers(concurrency)

\* shouldStop?.() : undefined (falsy) when no callback was passed
ShouldStop == hasStop /\ stopRef

\* A stop that only breaks out of the loop and leaves the queue as it is
QueueKeptOnStop(q) == q

\* queue.length = 0 : what the queue holds after a worker saw the stop request
QueueAfterStop(q) == <<>>

\* One worker's run() from the top of its while loop to its next await or to
\* its exit, on queue q.  A falsy item is shifted off the queue and skipped
\* by `if (item)` without an await, so the loop goes on in the same turn.
RECURSIVE RunLoop(_)
RunLoop(q) ==
    IF q = <<>>
    THEN [queue |-> q, to |-> "exited", item |-> 0, saw |-> FALSE]
    ELSE IF ShouldStop
    THEN [queue |-> QueueAfterStop(q), to |-> "exited", item |-> 0, saw |-> TRUE]
    ELSE IF Head(q) \notin falsy
    THEN [queue |-> Tail(q), to |-> "awaiting", item |-> Head(q), saw |-> FALSE]
    ELSE RunLoop(Tail(q))

\* .map(run): run() is called for worker w, w+1, ... in one synchronous turn;
\* each call runs up to its first await.  acc threads the shared state.
RECURSIVE LaunchWorkers(_, _)
LaunchWorkers(w, acc) ==
    IF w > NumWorkers(concurrency) THEN acc
    ELSE LET r == RunLoop(acc.queue)
         IN  LaunchWorkers(w + 1,
                [queue   |-> r.queue,
                 wstate  |-> [acc.wstate EXCEPT ![w] = r.to],
                 witem   |-> [acc.witem EXCEPT ![w] = r.item],
                 started |-> IF r.to = "awaiting" THEN Append(acc.started, r.item)
                                                  ELSE acc.started,
                 saw     |-> acc.saw \/ r.saw])

\* await Promise.all(workers): fulfilled once every worker promise is
\* fulfilled, rejected as soon as one of them rejects.
RunnerAfter(ws, r) ==
    IF r # "pending" THEN r
    ELSE IF \E w \in DOMAIN ws : ws[w] = "rejected" THEN "rejected"
    ELSE IF \A w \in DOMAIN ws : ws[w] = "exited" THEN "resolved"
    ELSE "pending"

InFlight == {w \in DOMAIN wstate : wstate[w] = "awaiting"}

BatchInit ==
    /\ \E n \in 0..MaxItems :
          /\ items = [i \in 1..n |-> i]
          /\ falsy \in SUBSET (1..n)
    /\ concurrency \in 1..MaxConc
    /\ hasStop \in BOOLEAN
    /\ stopRef \in BOOLEAN
    /\ (~hasStop => ~stopRef)
    /\ queue = items
    /\ completed = 0
    /\ launched = FALSE
    /\ wstate = [w \in Workers |-> "idle"]
    /\ witem = [w \in Workers |-> 0]
    /\ runner = "pending"
    /\ started = <<>>
    /\ reports = <<>>
    /\ stopSeen = FALSE
    /\ startedAfterStop = FALSE
    /\ startedAfterSettle = FALSE
    /\ settledCount = 0
    /\ finishedAfterStop = FALSE

\* const workers = Array(concurrency).fill(null).map(run); await Promise.all(workers)
Launch ==
    /\ ~launched
    /\ LET l == LaunchWorkers(1, [queue |-> queue, wstate |-> wstate,
                                   witem |-> witem, started |-> started,
                                   saw |-> FALSE])
       IN  /\ queue' = l.queue
           /\ wstate' = l.wstate
           /\ witem' = l.witem
           /\ started' = l.started
           /\ stopSeen' = l.saw
           /\ runner' = RunnerAfter(l.wstate, runner)
    /\ launched' = TRUE
    /\ UNCHANGED <<items, falsy, concurrency, hasStop, stopRef, completed,
                   reports, startedAfterStop, startedAfterSettle, settledCount,
                   finishedAfterStop>>
    /\ UNCHANGED notBatch

\* The processor invocation of worker w fulfils: completed++, onProgress, and
\* the worker goes round its loop again.
SettleOk(w) ==
    /\ launched
    /\ wstate[w] = "awaiting"
    /\ LET r == RunLoop(queue)
           ws == [wstate EXCEPT ![w] = r.to]
       IN  /\ completed' = completed + 1
           /\ reports' = Append(reports, <<completed + 1, total>>)
           /\ queue' = r.queue
           /\ wstate' = ws
           /\ witem' = [witem EXCEPT ![w] = r.item]
           /\ started' = IF r.to = "awaiting" THEN Append(started, r.item) ELSE started
           /\ stopSeen' = (stopSeen \/ r.saw)
           /\ startedAfterStop' = (startedAfterStop \/ (stopSeen /\ r.to = "awaiting"))
           /\ startedAfterSettle' =
                 (startedAfterSettle \/ (runner # "pending" /\ r.to = "awaiting"))
           /\ runner' = RunnerAfter(ws, runner)
    /\ settledCount' = settledCount + 1
    /\ finishedAfterStop' = (finishedAfterStop \/ stopSeen)
    /\ UNCHANGED <<items, falsy, concurrency, hasStop, stopRef, launched>>
    /\ UNCHANGED notBatch

\* The processor invocation of worker w rejects: `await processor(item)`
\* throws inside run(), which has no try/catch, so the worker's promise
\* rejects and Promise.all rejects with it.
SettleErr(w) ==
    /\ launched
    /\ wstate[w] = "awaiting"
    /\ LET ws == [wstate EXCEPT ![w] = "rejected"]
       IN  /\ wstate' = ws
           /\ runner' = RunnerAfter(ws, runner)
    /\ witem' = [witem EXCEPT ![w] = 0]
    /\ settledCount' = settledCount + 1
    /\ finishedAfterStop' = (finishedAfterStop \/ stopSeen)
    /\ UNCHANGED <<items, falsy, concurrency, hasStop, stopRef, queue, completed,
                   launched, started, reports, stopSeen, startedAfterStop,
                   startedAfterSettle>>
    /\ UNCHANGED notBatch

\* The caller's stop flag is set (stopHealthAnalysisRef.current = true)
RequestStop ==
    /\ hasStop
    /\ ~stopRef
    /\ stopRef' = TRUE
    /\ UNCHANGED <<items, falsy, concurrency, hasStop, queue, completed, launched,
                   wstate, witem, runner, started, reports, stopSeen,
                   startedAfterStop, startedAfterSettle, settledCount,
                   finishedAfterStop>>
    /\ UNCHANGED notBatch

\* The caller's stop flag is reset (stopHealthAnalysisRef.current = false)
ClearStop ==
    /\ hasStop
    /\ stopRef
    /\ stopRef' = FALSE
    /\ UNCHANGED <<items, falsy, concurrency, hasStop, queue, completed, launched,
                   wstate, witem, runner, started, reports, stopSeen,
                   startedAfterStop, startedAfterSettle, settledCount,
                   finishedAfterStop>>
    /\ UNCHANGED notBatch

BatchNext ==
    \/ Launch
    \/ \E w \in Workers : SettleOk(w)
    \/ \E w \in Workers : SettleErr(w)
    \/ RequestStop
    \/ ClearStop


---------------------------------------------------------------------------
(* Claims about processConcurrently *)

\* C1: at no instant of a run of processConcurrently are more processor
\* invocations started and not yet settled than the concurrency argument.
C1_InFlightBounded == Cardinality(InFlight) <= concurrency

\* C1 witness: the bound is reached with work still queued.
C1_Witness == Cardinality(InFlight) = concurrency /\ concurrency >= 2 /\ queue # <<>>

\* C2: once shouldStop() has returned true to a worker, no processor
\* invocation is started any more, every invocation that was started has
\* either settled by itself or is still in flight (none is aborted), and as
\* soon as none is in flight the runner has settled.
C2_StopHonoured ==
    stopSeen =>
        /\ ~startedAfterStop
        /\ Len(started) = settledCount + Cardinality(InFlight)
        /\ (InFlight = {} => runner # "pending")

\* C2 witness: a stop was seen while work was in flight, that work finished
\* afterwards, and the run resolved with items left unprocessed.
C2_Witness ==
    /\ stopSeen
    /\ finishedAfterStop
    /\ runner = "resolved"
    /\ Len(started) + Cardinality(falsy) < total

\* C3: when the runner has settled, no processor invocation is in flight and
\* none is started afterwards, whether the processor calls fulfil or reject.
C3_SettlesAfterAllWorkers ==
    runner # "pending" => (InFlight = {} /\ ~startedAfterSettle)

\* C24: the k-th onProgress call of a run reports completed = k (so the
\* reports start at 1 and each is one more than the one before), never more
\* than total, and total is the number of items in every report.
C24_ProgressMonotonic ==
    \A k \in DOMAIN reports :
        /\ reports[k][1] = k
        /\ reports[k][1] <= reports[k][2]
        /\ reports[k][2] = Len(items)

\* C24 witness: three reports of workers running side by side, in a run
\* that skipped a falsy item and therefore never reports total.
C24_Witness ==
    /\ Len(reports) = 3
    /\ concurrency >= 2
    /\ falsy # {}
    /\ runner = "resolved"

\* The run is over as the claim C39 describes it: the runner has resolved,
\* processor was invoked exactly once for each element of items, and the
\* last onProgress call reported completed = total
AllProcessedOnce ==
    /\ runner = "resolved"
    /\ \A i \in DOMAIN items :
           Cardinality({k \in DOMAIN started : started[k] = items[i]}) = 1
    /\ items # <<>> => /\ reports # <<>>
                       /\ reports[Len(reports)] = <<total, total>>

\* C39: when no stop is ever requested and no processor invocation rejects
\* (each one eventually fulfils, by the fairness of SpecBatchLive), the run
\* eventually resolves with every element of items processed exactly once
\* and completed = total reported last.
C39_EventuallyAllProcessed ==
    ([](~stopRef) /\ [](\A w \in Workers : wstate[w] # "rejected"))
        => <>AllProcessedOnce

---------------------------------------------------------------------------
(***************************************************************************)
(* callAiWithRetry                                                         *)
(*                                                                         *)
(* An error is a record                                                    *)
(*   status    error.status, 0 when the property is absent                 *)
(*   msgStatus the three digits of a "[ddd ...]" group in error.message,   *)
(*             0 when the message has none                                 *)
(*   ctx       the message contains 'context length' or 'token limit'      *)
(*   key       the message contains 'api key not valid'                    *)
(*   hdr       error.headers['retry-after']                                *)
(*   rhdr      error.response.headers.get('retry-after')                   *)
(* A header value is a record [kind, v]:                                   *)
(*   "none"    undefined / null             "empty"  the empty string      *)
(*   "int"     the decimal digits of v      "intjunk" digits of v, then    *)
(*   "date"    an HTTP-date, v ms after               other characters     *)
(*             the instant of the catch     "junk"   anything else         *)
(***************************************************************************)

NoHeader == [kind |-> "none", v |-> 0]

\* No error caught yet (status -1 is no status an error can carry)
NoError ==
    [status |-> -1, msgStatus |-> 0, ctx |-> FALSE, key |-> FALSE,
     hdr |-> NoHeader, rhdr |-> NoHeader]

\* new Error("AI call failed after all retries."): it has no status, and
\* status -2 tells it apart from every caught error
GenericError ==
    [status |-> -2, msgStatus |-> 0, ctx |-> FALSE, key |-> FALSE,
     hdr |-> NoHeader, rhdr |-> NoHeader]

HeaderValues ==
    {NoHeader, [kind |-> "empty", v |-> 0], [kind |-> "junk", v |-> 0]}
    \cup {[kind |-> "int", v |-> x] : x \in {0, 2}}
    \cup {[kind |-> "intjunk", v |-> 3]}
    \cup {[kind |-> "date", v |-> x] : x \in {-10000, 3000}}

ResponseHeaderValues == {NoHeader, [kind |-> "int", v |-> 7]}

Errors ==
    [status : {0, 400, 401, 429, 500},
     msgStatus : {0, 404, 429},
     ctx : BOOLEAN,
     key : BOOLEAN,
     hdr : HeaderValues,
     rhdr : ResponseHeaderValues]

\* Math.random() * 1000 lies in [0, 1000)
Jitters == {0, 999}

InitialDelays == {1000, 5000}

RECURSIVE Pow2(_)
Pow2(n) == IF n <= 0 THEN 1 ELSE 2 * Pow2(n - 1)

Max(a, b) == IF a >= b THEN a ELSE b

\* error.status || (statusMatch ? parseInt(statusMatch[1], 10) : null)
StatusCode(e) == IF e.status # 0 THEN e.status ELSE e.msgStatus

\* A classification that lets status 400 through to the retry path
IsNonRetriableAbove400(e) ==
    /\ StatusCode(e) # 0
    /\ StatusCode(e) > 400
    /\ StatusCode(e) < 500
    /\ StatusCode(e) # 429

\* statusCode && statusCode >= 400 && statusCode < 500 && statusCode !== 429
IsNonRetriableClientError(e) ==
    /\ StatusCode(e) # 0
    /\ StatusCode(e) >= 400
    /\ StatusCode(e) < 500
    /\ StatusCode(e) # 429

IsContextLengthError(e) == e.ctx
IsInvalidApiKeyError(e) == e.key

\* A classification that looks at the text only when the status is not one
\* of the retriable ones
FailFastStatusFirst(e) ==
    IF StatusCode(e) = 429 \/ StatusCode(e) >= 500
    THEN FALSE
    ELSE IsNonRetriableClientError(e) \/ IsContextLengthError(e) \/ IsInvalidApiKeyError(e)

FailFast(e) ==
    IsNonRetriableClientError(e) \/ IsContextLengthError(e) \/ IsInvalidApiKeyError(e)

\* A last-attempt test that is off by one
IsLastAttemptLate(a) == a = maxRetries

\* attempt === maxRetries - 1
IsLastAttempt(a) == a = maxRetries - 1

\* JavaScript truthiness of a header value: a non-empty string
Truthy(h) == h.kind \notin {"none", "empty"}

\* error.headers?.['retry-after'] || error.response?.headers?.get('retry-after')
RetryAfterHeader(e) == IF Truthy(e.hdr) THEN e.hdr ELSE e.rhdr

\* isNaN(parseInt(h, 10)): parseInt reads a leading run of digits
ParseIntIsNaN(h) == h.kind \notin {"int", "intjunk"}
ParseInt(h) == h.v

\* isNaN(new Date(h).getTime())
DateIsInvalid(h) == h.kind # "date"
\* retryDate.getTime() - new Date().getTime()
DateMinusNow(h) == h.v

\* A conversion that forgets the seconds-to-milliseconds factor
SecondsDelayNoScale(sec) == sec + 500

\* retryAfterSeconds * 1000 + 500
SecondsDelay(sec) == sec * 1000 + 500

\* A backoff whose exponent is one too high
BackoffDoubled(a, j) == initialDelay * Pow2(a + 1) + j

\* initialDelay * Math.pow(2, attempt) + Math.random() * 1000
Backoff(a, j) == initialDelay * Pow2(a) + j

\* The delay before the next attempt, after error e on attempt a with jitter j
DelayFor(e, a, j) ==
    IF e.status = 429 \/ StatusCode(e) = 429
    THEN LET h == RetryAfterHeader(e)
         IN  IF Truthy(h)
             THEN IF ~ParseIntIsNaN(h) THEN SecondsDelay(ParseInt(h))
                  ELSE IF ~DateIsInvalid(h) THEN DateMinusNow(h) + 500
                  ELSE Backoff(a, j)
             ELSE Backoff(a, j)
    ELSE Backoff(a, j)

\* The spec's notion of a retriable failure (5xx, 429, transient failures)
SpecRetriable(e) ==
    /\ ~(StatusCode(e) >= 400 /\ StatusCode(e) < 500 /\ StatusCode(e) # 429)
    /\ ~e.ctx
    /\ ~e.key

RetryInit ==
    /\ maxRetries \in 0..MaxRetriesArg
    /\ initialDelay \in InitialDelays
    /\ attempt = 0
    /\ rpc = "start"
    /\ calls = 0
    /\ lastErr = NoError
    /\ thrown = NoError
    /\ delay = 0
    /\ waited = 0
    /\ nwaits = 0
    /\ allRetriable = TRUE

\* for (let attempt = 0; attempt < maxRetries; ...): the first test of the loop
\* condition; with no iteration at all the function throws the generic error.
Enter ==
    /\ rpc = "start"
    /\ IF 0 < maxRetries
       THEN rpc' = "call" /\ thrown' = thrown
       ELSE rpc' = "thrown" /\ thrown' = GenericError
    /\ UNCHANGED <<maxRetries, initialDelay, attempt, calls, lastErr, delay,
                   waited, nwaits, allRetriable>>
    /\ UNCHANGED notRetry

\* return await apiCall(): the call fulfils
InvokeOk ==
    /\ rpc = "call"
    /\ calls' = calls + 1
    /\ rpc' = "returned"
    /\ allRetriable' = FALSE
    /\ UNCHANGED <<maxRetries, initialDelay, attempt, lastErr, thrown, delay,
                   waited, nwaits>>
    /\ UNCHANGED notRetry

\* await apiCall() rejects with e: the catch block
InvokeFail(e, j) ==
    /\ rpc = "call"
    /\ calls' = calls + 1
    /\ lastErr' = e
    /\ allRetriable' = (allRetriable /\ SpecRetriable(e))
    /\ IF FailFast(e) \/ IsLastAttempt(attempt)
       THEN /\ rpc' = "thrown"
            /\ thrown' = e
            /\ UNCHANGED <<delay, nwaits>>
       ELSE /\ rpc' = "waiting"
            /\ delay' = DelayFor(e, attempt, j)
            /\ nwaits' = nwaits + 1
            /\ thrown' = thrown
    /\ UNCHANGED <<maxRetries, initialDelay, attempt, waited>>
    /\ UNCHANGED notRetry

\* await new Promise(resolve => setTimeout(resolve, delay)) fires, attempt++,
\* and the loop condition is tested again.  setTimeout treats a negative delay
\* as zero.
WaitDone ==
    /\ rpc = "waiting"
    /\ waited' = Max(delay, 0)
    /\ attempt' = attempt + 1
    /\ IF attempt + 1 < maxRetries
       THEN rpc' = "call" /\ thrown' = thrown
       ELSE rpc' = "thrown" /\ thrown' = GenericError
    /\ UNCHANGED <<maxRetries, initialDelay, calls, lastErr, delay, nwaits,
                   allRetriable>>
    /\ UNCHANGED notRetry

RetryNext ==
    \/ Enter
    \/ InvokeOk
    \/ \E e \in Errors, j \in Jitters : InvokeFail(e, j)
    \/ WaitDone

---------------------------------------------------------------------------
(* Claims about callAiWithRetry *)

C4_ClientStatus(e) ==
    e # NoError /\ StatusCode(e) >= 400 /\ StatusCode(e) < 500 /\ StatusCode(e) # 429

\* C4: a failure whose status is in [400,500) and not 429 is rethrown at
\* once: callAiWithRetry has thrown that very error, apiCall is not invoked
\* again after it and no wait follows it; when it is the first failure,
\* apiCall was invoked exactly once.
C4_ClientErrorFailsFast ==
    C4_ClientStatus(lastErr) =>
        /\ rpc = "thrown"
        /\ thrown = lastErr
        /\ calls = attempt + 1
        /\ nwaits = attempt
        /\ (attempt = 0 => calls = 1 /\ nwaits = 0)

\* C4 witness: a 401 on the first attempt of a call that allowed retries.
C4_Witness ==
    /\ lastErr # NoError
    /\ lastErr.status = 401
    /\ maxRetries >= 2
    /\ rpc = "thrown"
    /\ calls = 1

\* C5: apiCall is never invoked more than maxRetries times, and when every
\* attempt failed with a retriable error the function throws after exactly
\* maxRetries invocations, the error thrown being that of the last attempt.
C5_RetriesExhausted ==
    /\ calls <= maxRetries
    /\ (rpc = "thrown" /\ allRetriable) =>
          /\ calls = maxRetries
          /\ (maxRetries >= 1 => thrown = lastErr)

\* C5 witness: three failures with status 500, then the throw.
C5_Witness ==
    /\ rpc = "thrown"
    /\ allRetriable
    /\ maxRetries = 3
    /\ calls = 3
    /\ lastErr # NoError
    /\ lastErr.status = 500

C6_SecondsHeader(e) ==
    /\ e # NoError
    /\ (e.status = 429 \/ StatusCode(e) = 429)
    /\ ~e.ctx /\ ~e.key
    /\ RetryAfterHeader(e).kind = "int"
    /\ RetryAfterHeader(e).v >= 0

\* C6: after a 429 whose Retry-After value is an integer number of seconds s,
\* the wait that precedes the next attempt is s*1000 + 500 ms, hence at least
\* s*1000 ms: that is the delay set while waiting and the time that has
\* passed when the next attempt is made.
C6_RetryAfterSeconds ==
    C6_SecondsHeader(lastErr) =>
        LET sec == RetryAfterHeader(lastErr).v
        IN  /\ rpc = "waiting" => (delay = sec * 1000 + 500 /\ delay >= sec * 1000)
            /\ rpc = "call" => (waited = sec * 1000 + 500 /\ nwaits = attempt)

\* C6 witness: Retry-After: 2 has been honoured and the next attempt is due.
C6_Witness ==
    /\ C6_SecondsHeader(lastErr)
    /\ RetryAfterHeader(lastErr).v = 2
    /\ rpc = "call"
    /\ attempt >= 1
    /\ waited = 2500

\* The wait after e follows a Retry-After value: e is a 429 whose header
\* reads as a number of seconds or as a date
C27_Paced(e) ==
    /\ (e.status = 429 \/ StatusCode(e) = 429)
    /\ RetryAfterHeader(e).kind \in {"int", "intjunk", "date"}

\* C27: the wait after failed attempt a (0-based) of a retriable failure that
\* is not paced by a Retry-After value lies in
\* [initialDelay * 2^a, initialDelay * 2^a + 1000) ms; and no wait follows the
\* final attempt: a wait is only ever started after an attempt before the
\* last, and the throw of the last attempt's error comes with as many waits
\* as there were earlier attempts.
C27_BackoffWindow ==
    /\ (rpc = "waiting" /\ ~C27_Paced(lastErr)) =>
           /\ delay >= initialDelay * 2^attempt
           /\ delay < initialDelay * 2^attempt + 1000
    /\ rpc = "waiting" => attempt < maxRetries - 1
    /\ nwaits <= attempt + 1
    /\ (rpc = "thrown" /\ lastErr # NoError /\ thrown = lastErr) => nwaits = attempt

\* C27 witness: the second attempt failed with a 429 whose Retry-After is
\* unreadable, and the wait is at the top of the window.
C27_Witness ==
    /\ rpc = "waiting"
    /\ attempt = 1
    /\ StatusCode(lastErr) = 429
    /\ RetryAfterHeader(lastErr).kind = "junk"
    /\ delay = initialDelay * 2 + 999

C28_TextFailure(e) == e # NoError /\ (e.ctx \/ e.key)

\* C28: a failure whose text tells a context-length / token-limit violation
\* or an invalid API key is rethrown at once, whatever its status (429 and
\* 5xx included): callAiWithRetry has thrown that very error, apiCall is not
\* invoked after it and no wait follows it; when it is the first failure,
\* apiCall was invoked exactly once.
C28_TextErrorFailsFast ==
    C28_TextFailure(lastErr) =>
        /\ rpc = "thrown"
        /\ thrown = lastErr
        /\ calls = attempt + 1
        /\ nwaits = attempt
        /\ (attempt = 0 => calls = 1 /\ nwaits = 0)

\* C28 witness: a 429 with a Retry-After header and a token-limit text on the
\* first attempt of a call that allowed retries.
C28_Witness ==
    /\ lastErr # NoError
    /\ lastErr.ctx
    /\ lastErr.status = 429
    /\ RetryAfterHeader(lastErr).kind = "int"
    /\ maxRetries >= 2
    /\ rpc = "thrown"
    /\ calls = 1

\* C40: when the wait after a 429 follows a Retry-After value, read as a
\* number of seconds or as an HTTP-date, the delay handed to the timer is not
\* negative and the wait that has passed when the next attempt is made is at
\* least the 500 ms buffer.
C40_RetryAfterWaitFloor ==
    C27_Paced(lastErr) =>
        /\ rpc = "waiting" => delay >= 500
        /\ rpc = "call" => waited >= 500

---------------------------------------------------------------------------
(***************************************************************************)
(* ContentCache                                                            *)
(***************************************************************************)

\* private TTL = 3600000; // 1 hour
TTL == 3600000

Keys == {"k1", "k2"}
Values == {"v1", "v2"}

\* What get returns on a miss
Null == "null"

\* A key the Map does not hold
NoEntry == [present |-> FALSE, data |-> Null, timestamp |-> 0]

\* The steps the clock is seen to take between two calls
ClockSteps == {1, 1000, TTL - 1000}

\* A freshness test that still serves an entry at exactly timestamp + TTL
FreshInclusive(ts, t) == t - ts <= TTL

\* Date.now() - item.timestamp < this.TTL
Fresh(ts, t) == t - ts < TTL

\* get(key) at time t on Map c
CacheGet(c, k, t) ==
    IF c[k].present /\ Fresh(c[k].timestamp, t) THEN c[k].data ELSE Null

NoGet == [key |-> "", at |-> 0, result |-> Null, nsets |-> 0]

CacheInit ==
    /\ cache = [k \in Keys |-> NoEntry]
    /\ now = 0
    /\ nticks = 0
    /\ setLog = <<>>
    /\ lastGet = NoGet

\* set(key, data)
CacheSet(k, v) ==
    /\ Len(setLog) < MaxSets
    /\ cache' = [cache EXCEPT ![k] = [present |-> TRUE, data |-> v, timestamp |-> now]]
    /\ setLog' = Append(setLog, <<k, v, now>>)
    /\ UNCHANGED <<now, nticks, lastGet>>
    /\ UNCHANGED notCache

\* get(key)
CacheGetCall(k) ==
    /\ lastGet' = [key |-> k, at |-> now, result |-> CacheGet(cache, k, now),
                   nsets |-> Len(setLog)]
    /\ UNCHANGED <<cache, now, nticks, setLog>>
    /\ UNCHANGED notCache

\* Time passes
Tick(d) ==
    /\ nticks < MaxTicks
    /\ now' = now + d
    /\ nticks' = nticks + 1
    /\ UNCHANGED <<cache, setLog, lastGet>>
    /\ UNCHANGED notCache

CacheNext ==
    \/ \E k \in Keys, v \in Values : CacheSet(k, v)
    \/ \E k \in Keys : CacheGetCall(k)
    \/ \E d \in ClockSteps : Tick(d)

---------------------------------------------------------------------------
(* Claims about ContentCache *)

\* The index in setLog[1..n] of the latest set of key k, 0 when there is none
RECURSIVE C7_LatestSet(_, _)
C7_LatestSet(k, n) ==
    IF n = 0 THEN 0
    ELSE IF setLog[n][1] = k THEN n
    ELSE C7_LatestSet(k, n - 1)

\* C7: get(key) at time t returns the value most recently set for key when
\* t minus the time of that set is below 3,600,000 ms, and null otherwise:
\* at exactly that time + TTL, later, and for a key that was never set.
C7_CacheTtl ==
    lastGet # NoGet =>
        LET i == C7_LatestSet(lastGet.key, lastGet.nsets)
        IN  IF i # 0 /\ lastGet.at - setLog[i][3] < 3600000
            THEN lastGet.result = setLog[i][2]
            ELSE lastGet.result = Null

\* C7 witness: a get at exactly insertion time + TTL misses, although the
\* entry is still held by the Map (nothing swept it).
C7_Witness ==
    /\ lastGet # NoGet
    /\ cache[lastGet.key].present
    /\ lastGet.at = now
    /\ now - cache[lastGet.key].timestamp = TTL
    /\ lastGet.result = Null

---------------------------------------------------------------------------
(***************************************************************************)
(* Strings                                                                 *)
(*                                                                         *)
(* A string is a sequence of tokens; a token is a fixed run of characters. *)
(* The tokens are chosen so that every regular expression of the code      *)
(* treats each of them as a unit: only Q holds a double quote, only RB a   *)
(* closing bracket, only WS is whitespace, no word is part of another      *)
(* token.  On such strings the code's regular expressions are decided      *)
(* token by token exactly as they are character by character.              *)
(***************************************************************************)

LB == "[INTERNAL_LINK"
WS == " "
SK == "slug="
TK == "text="
Q  == "\""
RB == "]"
LT == "<"
GT == ">"
DOT == "."
AHREF == "<a href="
ACLOSE == "</a>"
QUOT == "&quot;"
\* The three backticks of a markdown code fence
Fence == "(fence)"
UTM == "?utm_source=wp-content-optimizer&utm_medium=internal-link&utm_campaign=content-hub-automation"

\* String.prototype.toLowerCase, token by token
Lower(t) ==
    CASE t = "Solar" -> "solar"
      [] t = "Panel" -> "panel"
      [] t = "Guide" -> "guide"
      [] t = "Best"  -> "best"
      [] t = LB      -> "[internal_link"
      [] OTHER       -> t

LowerStr(s) == [i \in 1..Len(s) |-> Lower(s[i])]

\* The number of characters of a token
TokLen(t) ==
    CASE t \in {WS, Q, RB, LT, GT, DOT} -> 1
      [] t \in {"to", "p"} -> 2
      [] t \in {"roi", "zzz", "/p"} -> 3
      [] t \in {"best", "Best", "read", "bad1", "bad2", "home", ACLOSE} -> 4
      [] t \in {"solar", "Solar", "panel", "Panel", "guide", "Guide",
                "costs", SK, TK} -> 5
      [] t = QUOT -> 6
      [] t = AHREF -> 8
      [] t \in {LB, "[internal_link"} -> 14
      [] t = "solar-panel-guide" -> 17
      [] t = "https://site.test/" -> 18
      [] t = "https://site.test/best" -> 22
      [] t = "https://site.test/costs" -> 23
      [] t = "https://site.test/solar-panel-guide" -> 35
      [] t = UTM -> 93
      [] t = Fence -> 3
      [] t \in {"Here", "html", "HTML"} -> 4

\* string.length
RECURSIVE CharLen(_)
CharLen(s) == IF s = <<>> THEN 0 ELSE TokLen(Head(s)) + CharLen(Tail(s))

\* s[i], or the empty token beyond either end of s
At(s, i) == IF i >= 1 /\ i <= Len(s) THEN s[i] ELSE ""

\* The first index j >= i with s[j] not whitespace (Len(s)+1 when there is none)
RECURSIVE SkipWS(_, _)
SkipWS(s, i) == IF i <= Len(s) /\ s[i] = WS THEN SkipWS(s, i + 1) ELSE i

\* The first index j >= i with s[j] = t (0 when there is none)
RECURSIVE IndexOfTok(_, _, _)
IndexOfTok(s, t, i) ==
    IF i > Len(s) THEN 0
    ELSE IF s[i] = t THEN i
    ELSE IndexOfTok(s, t, i + 1)

\* hay.includes(needle)
Includes(hay, needle) ==
    \E i \in 1..(Len(hay) - Len(needle) + 1) :
        SubSeq(hay, i, i + Len(needle) - 1) = needle

\* s.split(' '): the parts between single spaces (a part may be empty)
RECURSIVE SplitFrom(_, _, _)
SplitFrom(s, i, cur) ==
    IF i > Len(s) THEN <<cur>>
    ELSE IF s[i] = WS THEN <<cur>> \o SplitFrom(s, i + 1, <<>>)
    ELSE SplitFrom(s, i + 1, Append(cur, s[i]))

Split(s) == SplitFrom(s, 1, <<>>)

\* parts.join(' ')
RECURSIVE Join(_)
Join(parts) ==
    IF parts = <<>> THEN <<>>
    ELSE IF Len(parts) = 1 THEN parts[1]
    ELSE parts[1] \o <<WS>> \o Join(Tail(parts))

\* s.split(/\s+/).filter(w => w.length > 2), as a set.  Splitting at every
\* space leaves the same parts plus empty ones, which the filter drops.
MeaningfulWords(s) ==
    LET parts == Split(s)
    IN  {parts[i] : i \in {j \in 1..Len(parts) : CharLen(parts[j]) > 2}}

\* text.replace(/"/g, '&quot;')
EscapeQuotes(s) == [i \in 1..Len(s) |-> IF s[i] = Q THEN QUOT ELSE s[i]]

---------------------------------------------------------------------------
(***************************************************************************)
(* The internal-link subsystem                                             *)
(*                                                                         *)
(* A page is a record [id, title, slug] of strings; a missing or empty     *)
(* property is the empty string.                                           *)
(***************************************************************************)

NoMatch == [ok |-> FALSE, slug |-> <<>>, text |-> <<>>, end |-> 0]

\* /\[INTERNAL_LINK\s+slug="([^"]+)"\s+text="([^"]+)"\]/ tried at index i of s.
\* [^"]+ cannot cross a quote and must be followed by one, so each capture
\* runs to the next quote and holds at least one token.
MatchPlaceholder(s, i) ==
    IF At(s, i) # LB THEN NoMatch
    ELSE LET j1 == SkipWS(s, i + 1)
             q1 == IndexOfTok(s, Q, j1 + 2)
             j2 == SkipWS(s, q1 + 1)
             q2 == IndexOfTok(s, Q, j2 + 2)
         IN  IF /\ j1 > i + 1
                /\ At(s, j1) = SK
                /\ At(s, j1 + 1) = Q
                /\ q1 > j1 + 2
                /\ j2 > q1 + 1
                /\ At(s, j2) = TK
                /\ At(s, j2 + 1) = Q
                /\ q2 > j2 + 2
                /\ At(s, q2 + 1) = RB
             THEN [ok |-> TRUE,
                   slug |-> SubSeq(s, j1 + 2, q1 - 1),
                   text |-> SubSeq(s, j2 + 2, q2 - 1),
                   end |-> q2 + 1]
             ELSE NoMatch

\* `[INTERNAL_LINK slug="${slug}" text="${text}"]`
Placeholder(slug, text) ==
    <<LB, WS, SK, Q>> \o slug \o <<Q, WS, TK, Q>> \o text \o <<Q, RB>>

\* new Map(availablePages.map(p => [p.slug, p])).has(slug)
HasSlug(pages, slug) == \E i \in 1..Len(pages) : pages[i].slug = slug

\* A score is a fraction <<numerator, denominator>>, denominator > 0
ScoreGreater(a, b) == a[1] * b[2] > b[1] * a[2]

\* currentScore of one page for anchor text `text` (lines 858-891):
\* 100 for an exact title match, 60 when the title contains the anchor, 50
\* when the anchor contains the title, plus the mean of the two overlap
\* percentages of the words longer than two characters.
PageScore(page, text) ==
    LET tl == LowerStr(page.title)
        al == LowerStr(text)
        base == (IF tl = al THEN 100 ELSE 0)
                + (IF Includes(tl, al) THEN 60 ELSE 0)
                + (IF Includes(al, tl) THEN 50 ELSE 0)
        A == MeaningfulWords(al)
        T == MeaningfulWords(tl)
        I == A \cap T
        a == Cardinality(A)
        t == Cardinality(T)
        n == Cardinality(I)
    IN  IF n = 0 THEN <<base, 1>>
        ELSE <<base * a * t + 50 * n * (a + t), a * t>>

\* `continue`: the pages the scoring loop passes over
PageSkipped(page) ==
    \/ page.slug = <<>>
    \/ page.title = <<>>
    \/ MeaningfulWords(LowerStr(page.title)) = {}

\* The scoring loop from page i on: best is the index of bestMatch (0 for
\* null), high is highestScore.
RECURSIVE BestMatchFrom(_, _, _, _, _)
BestMatchFrom(pages, text, i, best, high) ==
    IF i > Len(pages) THEN [best |-> best, high |-> high]
    ELSE IF PageSkipped(pages[i]) THEN BestMatchFrom(pages, text, i + 1, best, high)
    ELSE LET sc == PageScore(pages[i], text)
         IN  IF ScoreGreater(sc, high)
             THEN BestMatchFrom(pages, text, i + 1, i, sc)
             ELSE BestMatchFrom(pages, text, i + 1, best, high)

\* The replacement of one placeholder by validateAndRepairInternalLinks
RepairOne(pages, m, whole) ==
    IF HasSlug(pages, m.slug) THEN whole
    ELSE LET b == BestMatchFrom(pages, m.text, 1, 0, <<-1, 1>>)
         IN  IF b.best # 0 /\ ScoreGreater(b.high, <<50, 1>>)
             THEN Placeholder(pages[b.best].slug, EscapeQuotes(m.text))
             ELSE m.text

\* content.replace(placeholderRegex, ...) of validateAndRepairInternalLinks
RECURSIVE RepairFrom(_, _, _)
RepairFrom(s, i, pages) ==
    IF i > Len(s) THEN <<>>
    ELSE LET m == MatchPlaceholder(s, i)
         IN  IF m.ok
             THEN RepairOne(pages, m, SubSeq(s, i, m.end)) \o RepairFrom(s, m.end + 1, pages)
             ELSE <<s[i]>> \o RepairFrom(s, i + 1, pages)

validateAndRepairInternalLinks(content, availablePages) ==
    IF content = <<>> \/ availablePages = <<>> THEN content
    ELSE RepairFrom(content, 1, availablePages)

\* The number of matches of the placeholder regex in s from index i on
RECURSIVE CountPlaceholders(_, _)
CountPlaceholders(s, i) ==
    IF i > Len(s) THEN 0
    ELSE LET m == MatchPlaceholder(s, i)
         IN  IF m.ok THEN 1 + CountPlaceholders(s, m.end + 1)
             ELSE CountPlaceholders(s, i + 1)

\* match[1] of a regular expression that has no capture group
Undefined == <<"undefined">>

\* new Set(existingLinks.map(match => match[1])): the regex of
\* enforceInternalLinkQuota (line 924) has no capture group, so every
\* match[1] is undefined.
LinkedSlugs(content) ==
    IF CountPlaceholders(content, 1) > 0 THEN {Undefined} ELSE {}

\* a.indexOf(v) === i
FirstIndexOf(a, v) == CHOOSE i \in 1..Len(a) : a[i] = v /\ \A j \in 1..(i - 1) : a[j] # v

\* The elements of sequence a whose index satisfies keep, in order
RECURSIVE FilterIdx(_, _, _)
FilterIdx(a, keep, i) ==
    IF i > Len(a) THEN <<>>
    ELSE IF i \in keep THEN <<a[i]>> \o FilterIdx(a, keep, i + 1)
    ELSE FilterIdx(a, keep, i + 1)

\* Insert term x into a sequence sorted by decreasing length, after the
\* terms that are at least as long (the sort is stable)
RECURSIVE InsertByLength(_, _)
InsertByLength(sorted, x) ==
    IF sorted = <<>> THEN <<x>>
    ELSE IF CharLen(Head(sorted)) >= CharLen(x)
    THEN <<Head(sorted)>> \o InsertByLength(Tail(sorted), x)
    ELSE <<x>> \o sorted

\* .sort((a, b) => b.length - a.length)
RECURSIVE SortByLength(_)
SortByLength(a) ==
    IF a = <<>> THEN <<>>
    ELSE InsertByLength(SortByLength(SubSeq(a, 1, Len(a) - 1)), a[Len(a)])

\* The prioritized search terms of a page title (lines 943-950)
SearchTerms(title) ==
    LET parts == Split(title)
        n == Len(parts)
        raw == <<title>>
               \o (IF n > 4 THEN <<Join(SubSeq(parts, 1, n - 1))>> ELSE <<>>)
               \o (IF n > 3 THEN <<Join(SubSeq(parts, 2, n))>> ELSE <<>>)
        keep == {i \in 1..Len(raw) : FirstIndexOf(raw, raw[i]) = i /\ CharLen(raw[i]) > 10}
    IN  SortByLength(FilterIdx(raw, keep, 1))

\* The candidate pool (lines 938-954), as indices into availablePages
IsCandidate(page, linked) ==
    /\ page.slug # <<>>
    /\ page.title # <<>>
    /\ page.slug \notin linked
    /\ Len(Split(page.title)) > 2
    /\ SearchTerms(page.title) # <<>>

\* (?<=[>\s\n\t(]) : the character before the match
BehindOK(t) == t \in {GT, WS, ACLOSE}
\* (?=[<\s\n\t.,!?)]) : the character after the match
AheadOK(t) == t \in {LT, WS, DOT, AHREF, ACLOSE}

\* The first index >= i where searchRegex (flags gi) matches term in s; 0 when
\* it matches nowhere
RECURSIVE FindTerm(_, _, _)
FindTerm(s, term, i) ==
    IF i + Len(term) - 1 > Len(s) THEN 0
    ELSE IF /\ BehindOK(At(s, i - 1))
            /\ AheadOK(At(s, i + Len(term)))
            /\ LowerStr(SubSeq(s, i, i + Len(term) - 1)) = LowerStr(term)
    THEN i
    ELSE FindTerm(s, term, i + 1)

\* The loop over page.searchTerms (lines 964-991): the content after the
\* first term that matches has been wrapped, or s itself
RECURSIVE PlaceLink(_, _, _, _)
PlaceLink(s, page, terms, k) ==
    IF k > Len(terms) THEN [placed |-> FALSE, content |-> s]
    ELSE LET at == FindTerm(s, terms[k], 1)
             n == Len(terms[k])
         IN  IF at # 0
             THEN [placed |-> TRUE,
                   content |-> SubSeq(s, 1, at - 1)
                               \o Placeholder(page.slug, SubSeq(s, at, at + n - 1))
                               \o SubSeq(s, at + n, Len(s))]
             ELSE PlaceLink(s, page, terms, k + 1)

\* The loop over candidatePages (lines 959-992)
RECURSIVE QuotaLoop(_, _, _, _, _, _)
QuotaLoop(s, pages, i, deficit, linked, newly) ==
    IF i > Len(pages) \/ deficit <= 0 THEN s
    ELSE IF ~IsCandidate(pages[i], linked) \/ pages[i].slug \in newly
    THEN QuotaLoop(s, pages, i + 1, deficit, linked, newly)
    ELSE LET r == PlaceLink(s, pages[i], SearchTerms(pages[i].title), 1)
         IN  IF r.placed
             THEN QuotaLoop(r.content, pages, i + 1, deficit - 1, linked,
                            newly \cup {pages[i].slug})
             ELSE QuotaLoop(s, pages, i + 1, deficit, linked, newly)

enforceInternalLinkQuota(content, availablePages, minLinks) ==
    IF availablePages = <<>> THEN content
    ELSE LET deficit == minLinks - CountPlaceholders(content, 1)
         IN  IF deficit <= 0 THEN content
             ELSE QuotaLoop(content, availablePages, 1, deficit,
                            LinkedSlugs(content), {})

\* new Map(availablePages.filter(p => p.slug).map(p => [p.slug, p])).get(slug):
\* the index of the last page with that slug, 0 for none
PageBySlug(pages, slug) ==
    LET hits == {i \in 1..Len(pages) : pages[i].slug # <<>> /\ pages[i].slug = slug}
    IN  IF hits = {} THEN 0 ELSE CHOOSE i \in hits : \A j \in hits : j <= i

\* `<a href="${finalUrl}">${sanitizedText}</a>` with the UTM parameters set
Anchor(page, text) ==
    <<AHREF, Q>> \o page.id \o <<UTM, Q, GT>> \o EscapeQuotes(text) \o <<ACLOSE>>

\* The replacement of one placeholder by processInternalLinks
ResolveOne(pages, m) ==
    LET i == PageBySlug(pages, m.slug)
    IN  IF i # 0 /\ pages[i].id # <<>> THEN Anchor(pages[i], m.text) ELSE m.text

RECURSIVE ResolveFrom(_, _, _)
ResolveFrom(s, i, pages) ==
    IF i > Len(s) THEN <<>>
    ELSE LET m == MatchPlaceholder(s, i)
         IN  IF m.ok
             THEN ResolveOne(pages, m) \o ResolveFrom(s, m.end + 1, pages)
             ELSE <<s[i]>> \o ResolveFrom(s, i + 1, pages)

processInternalLinks(content, availablePages) ==
    IF content = <<>> \/ availablePages = <<>> THEN content
    ELSE ResolveFrom(content, 1, availablePages)

\* match.match(/slug="([^"]+)"/) or /text="([^"]+)"/ : the first place from
\* index i on where the attribute name, a quote, at least one token that is
\* no quote, and a quote follow one another; the capture, or <<>> for no match
RECURSIVE AttrValue(_, _, _)
AttrValue(m, name, i) ==
    IF i > Len(m) THEN <<>>
    ELSE LET q == IndexOfTok(m, Q, i + 2)
         IN  IF m[i] = name /\ At(m, i + 1) = Q /\ q > i + 2
             THEN SubSeq(m, i + 2, q - 1)
             ELSE AttrValue(m, name, i + 1)

\* The replacement of one /\[INTERNAL_LINK[^\]]*\]/ match
SanitizeOne(m) ==
    LET slugMatch == AttrValue(m, SK, 1)
        textMatch == AttrValue(m, TK, 1)
    IN  IF slugMatch # <<>> /\ textMatch # <<>> THEN m ELSE textMatch

RECURSIVE SanitizeFrom(_, _)
SanitizeFrom(s, i) ==
    IF i > Len(s) THEN <<>>
    ELSE LET e == IndexOfTok(s, RB, i + 1)
         IN  IF s[i] = LB /\ e # 0
             THEN SanitizeOne(SubSeq(s, i, e)) \o SanitizeFrom(s, e + 1)
             ELSE <<s[i]>> \o SanitizeFrom(s, i + 1)

sanitizeBrokenPlaceholders(content) == SanitizeFrom(content, 1)

\* ---- The inputs of the link functions

\* Pages of the sitemap: id (the full URL), title and slug
PgGuide == [id |-> <<"https://site.test/solar-panel-guide">>,
            title |-> <<"Solar", WS, "Panel", WS, "Guide">>,
            slug |-> <<"solar-panel-guide">>]
PgCosts == [id |-> <<"https://site.test/costs">>,
            title |-> <<"best", WS, "solar", WS, "panel", WS, "costs">>,
            slug |-> <<"costs">>]
PgHome  == [id |-> <<"https://site.test/">>, title |-> <<"home">>, slug |-> <<>>]
PgNoId  == [id |-> <<>>, title |-> <<"zzz", WS, "roi">>, slug |-> <<"roi">>]
PgBest  == [id |-> <<"https://site.test/best">>,
            title |-> <<"best", WS, "Solar", WS, "Panel", WS, "Guide">>,
            slug |-> <<"best">>]
\* A page whose title has no word longer than two characters
PgTo    == [id |-> <<>>, title |-> <<"to">>, slug |-> <<"to">>]
PagePool == {PgGuide, PgCosts, PgBest, PgHome, PgNoId, PgTo}

\* Pieces of AI-written content
SegValid     == Placeholder(<<"solar-panel-guide">>, <<"solar", WS, "guide">>)
SegExact     == Placeholder(<<"bad1">>, <<"solar", WS, "panel", WS, "guide">>)
SegNoMatch   == Placeholder(<<"bad1">>, <<"zzz">>)
SegNoSlug    == <<LB, WS, TK, Q, "zzz", Q, RB>>
SegEmptySlug == <<LB, WS, SK, Q, Q, WS, TK, Q, "roi", Q, RB>>
SegUnclosed  == <<LB, WS, SK, Q, "costs", Q>>
SegReversed  == <<LB, WS, TK, Q, "read", Q, WS, SK, Q, "costs", Q, RB>>
SegNested    == <<LB, WS, SK, Q, "bad1", Q, WS, TK, Q>>
                \o Placeholder(<<"bad2">>, <<"read">>) \o <<Q, RB>>
SegTitleInAnchor == Placeholder(<<"roi">>, <<"read", WS, "best", WS, "solar",
                                            WS, "panel", WS, "costs", WS, "zzz">>)
SegBodyGuide == <<LT, "p", GT, "read", WS, "solar", WS, "panel", WS, "guide",
                  DOT, LT, "/p", GT>>
SegBodyCosts == <<LT, "p", GT, "Best", WS, "solar", WS, "panel", WS, "costs",
                  WS, "to", WS, "read", LT, "/p", GT>>
SegBodyBest  == <<LT, "p", GT, "read", WS, "best", WS, "Solar", WS, "Panel", WS,
                  "Guide", DOT, LT, "/p", GT>>
SegShortTitle == Placeholder(<<"bad2">>, <<"to">>)
SegmentPool == {SegValid, SegExact, SegNoMatch, SegNoSlug, SegEmptySlug,
                SegUnclosed, SegReversed, SegNested, SegTitleInAnchor,
                SegShortTitle,
                SegBodyGuide, SegBodyCosts, SegBodyBest}

\* The sequences over S of length at most n
SeqsUpTo(S, n) == UNION {[1..k -> S] : k \in 0..n}

\* The concatenation of a sequence of token sequences
RECURSIVE Concat(_)
Concat(ss) == IF ss = <<>> THEN <<>> ELSE Head(ss) \o Concat(Tail(ss))

Contents == {Concat(ss) : ss \in SeqsUpTo(SegmentPool, MaxSegs)}
PageLists == SeqsUpTo(PagePool, MaxPages)

\* The orders in which the program applies the link functions: the documented
\* pipeline, the finalize stage of generateContent (lines 4482-4485), the
\* link-optimizer path (line 4082), and one function applied on its own or
\* to its own output.
CallOrders ==
    { <<"repair", "quota", "resolve", "sanitize">>,
      <<"sanitize", "repair", "quota", "resolve">>,
      <<"repair", "repair">>,
      <<"quota", "quota">>,
      <<"resolve">> }

IsPrefix(a, b) == Len(a) <= Len(b) /\ SubSeq(b, 1, Len(a)) = a
CanApply(f) == \E o \in CallOrders : IsPrefix(Append(ltrace, f), o)

LinksInit ==
    /\ linput \in Contents
    /\ lpages \in PageLists
    /\ lmin \in 0..MaxMinLinks
    /\ lcontent = linput
    /\ lprev = linput
    /\ ltrace = <<>>

Repair ==
    /\ CanApply("repair")
    /\ lcontent' = validateAndRepairInternalLinks(lcontent, lpages)
    /\ lprev' = lcontent
    /\ ltrace' = Append(ltrace, "repair")
    /\ UNCHANGED <<linput, lpages, lmin>>
    /\ UNCHANGED notLinks

Quota ==
    /\ CanApply("quota")
    /\ lcontent' = enforceInternalLinkQuota(lcontent, lpages, lmin)
    /\ lprev' = lcontent
    /\ ltrace' = Append(ltrace, "quota")
    /\ UNCHANGED <<linput, lpages, lmin>>
    /\ UNCHANGED notLinks

Resolve ==
    /\ CanApply("resolve")
    /\ lcontent' = processInternalLinks(lcontent, lpages)
    /\ lprev' = lcontent
    /\ ltrace' = Append(ltrace, "resolve")
    /\ UNCHANGED <<linput, lpages, lmin>>
    /\ UNCHANGED notLinks

Sanitize ==
    /\ CanApply("sanitize")
    /\ lcontent' = sanitizeBrokenPlaceholders(lcontent)
    /\ lprev' = lcontent
    /\ ltrace' = Append(ltrace, "sanitize")
    /\ UNCHANGED <<linput, lpages, lmin>>
    /\ UNCHANGED notLinks

LinksNext == Repair \/ Quota \/ Resolve \/ Sanitize

ContainsTok(s, t) == \E i \in 1..Len(s) : s[i] = t

\* C8: after repair, quota, resolve and sanitize have run in that order, the
\* output contains no "[INTERNAL_LINK" substring, whatever the content and
\* the page list.
C8_NoPlaceholderAfterPipeline ==
    ltrace = <<"repair", "quota", "resolve", "sanitize">>
        => ~ContainsTok(lcontent, LB)

\* Index i of s lies inside a placeholder of s
InsidePlaceholder(s, i) ==
    \E j \in 1..i : MatchPlaceholder(s, j).ok /\ i <= MatchPlaceholder(s, j).end

\* Index i of s lies inside an HTML tag of s
InsideTag(s, i) ==
    \E j \in 1..(i - 1) :
        /\ s[j] \in {LT, AHREF}
        /\ \A k \in (j + 1)..(i - 1) : s[k] # GT
        /\ \E k \in i..Len(s) : s[k] = GT

\* The phrase occurs verbatim in the body text of content, delimited as the
\* search regex requires: outside every tag and every placeholder
C11_OccursInBody(content, phrase) ==
    \E i \in 1..(Len(content) - Len(phrase) + 1) :
        /\ SubSeq(content, i, i + Len(phrase) - 1) = phrase
        /\ BehindOK(At(content, i - 1))
        /\ AheadOK(At(content, i + Len(phrase)))
        /\ ~InsidePlaceholder(content, i)
        /\ ~InsideTag(content, i)

\* The slugs named by the placeholders of content
C11_SlugsIn(content) ==
    {MatchPlaceholder(content, i).slug :
        i \in {j \in 1..Len(content) : MatchPlaceholder(content, j).ok}}

\* Page k of pages is an eligible candidate whose title occurs in the body
C11_Eligible(content, pages, k) ==
    /\ IsCandidate(pages[k], C11_SlugsIn(content))
    /\ C11_OccursInBody(content, pages[k].title)

\* C11: when the content has fewer than N placeholders and at least N
\* eligible candidate pages (distinct slugs, distinct titles) have their
\* title phrase verbatim in the body text, the output of
\* enforceInternalLinkQuota holds at least N placeholders.
C11_QuotaMet ==
    ( /\ ltrace = <<"quota">>
      /\ CountPlaceholders(linput, 1) < lmin
      /\ \E ks \in SUBSET (1..Len(lpages)) :
            /\ Cardinality(ks) >= lmin
            /\ \A k \in ks : C11_Eligible(linput, lpages, k)
            /\ \A k1, k2 \in ks :
                  k1 # k2 => /\ lpages[k1].slug # lpages[k2].slug
                             /\ LowerStr(lpages[k1].title) # LowerStr(lpages[k2].title) )
        => CountPlaceholders(lcontent, 1) >= lmin

\* C10: validateAndRepairInternalLinks is idempotent: applied to its own
\* output with the same page list it returns that output unchanged.
C10_RepairIdempotent ==
    ltrace = <<"repair", "repair">> => lcontent = lprev

\* The number of placeholders of s, from index i on, that name slug
RECURSIVE C31_CountSlug(_, _, _)
C31_CountSlug(s, slug, i) ==
    IF i > Len(s) THEN 0
    ELSE LET m == MatchPlaceholder(s, i)
         IN  IF m.ok
             THEN (IF m.slug = slug THEN 1 ELSE 0) + C31_CountSlug(s, slug, m.end + 1)
             ELSE C31_CountSlug(s, slug, i + 1)

\* C31: enforceInternalLinkQuota injects no placeholder for a page whose slug
\* already appears in a placeholder of the input content, and at most one
\* placeholder per page: the output holds no more placeholders for a slug
\* that the input already linked than the input did, and at most one for
\* every other slug.
C31_OnlyUnlinkedCandidates ==
    ltrace = <<"quota">> =>
        \A k \in 1..Len(lpages) :
            LET slug == lpages[k].slug
            IN  IF slug \in C11_SlugsIn(linput)
                THEN C31_CountSlug(lcontent, slug, 1) <= C31_CountSlug(linput, slug, 1)
                ELSE C31_CountSlug(lcontent, slug, 1) <= 1

\* The first index at which a and b differ
C32_FirstDiff(a, b) ==
    CHOOSE i \in 1..(Len(a) + 1) :
        /\ At(a, i) # At(b, i)
        /\ \A j \in 1..(i - 1) : At(a, j) = At(b, j)

\* C32: a placeholder injected by enforceInternalLinkQuota wraps an
\* occurrence of the phrase in body text.  The leftmost injection starts
\* where the output first differs from the input: that place of the input
\* lies inside no HTML tag and inside no placeholder.
C32_InjectedInBodyText ==
    (ltrace = <<"quota">> /\ lcontent # linput) =>
        LET d == C32_FirstDiff(lcontent, linput)
        IN  /\ lcontent[d] = LB
            /\ ~InsideTag(linput, d)
            /\ ~InsidePlaceholder(linput, d)

\* The indices of s at which the left-to-right scan of the placeholder regex
\* finds a placeholder that nothing bracketed precedes: the tokens before it
\* are copied as they are, so its replacement starts at the same index of
\* the output.
C29_FirstPlaceholders(s) ==
    {i \in 1..Len(s) : /\ MatchPlaceholder(s, i).ok
                       /\ \A j \in 1..(i - 1) : s[j] # LB}

\* The slugs of the known pages
C29_KnownSlugs(pages) == {pages[k].slug : k \in 1..Len(pages)} \ {<<>>}

\* C29: validateAndRepairInternalLinks leaves a placeholder with a known slug
\* unchanged; a placeholder with an unknown slug becomes a placeholder for
\* the highest-scoring page when that score is strictly above 50, and its
\* anchor text alone otherwise; afterwards every placeholder that remains
\* names a known page.
C29_RepairOutcome ==
    ltrace = <<"repair">> =>
        /\ \A i \in C29_FirstPlaceholders(linput) :
              LET m == MatchPlaceholder(linput, i)
                  b == BestMatchFrom(lpages, m.text, 1, 0, <<-1, 1>>)
                  out == IF m.slug \in C29_KnownSlugs(lpages)
                             THEN SubSeq(linput, i, m.end)
                         ELSE IF b.best # 0 /\ ScoreGreater(b.high, <<50, 1>>)
                             THEN Placeholder(lpages[b.best].slug, m.text)
                         ELSE m.text
              IN  SubSeq(lcontent, i, i + Len(out) - 1) = out
        /\ \A i \in 1..Len(lcontent) :
              MatchPlaceholder(lcontent, i).ok
                  => MatchPlaceholder(lcontent, i).slug \in C29_KnownSlugs(lpages)

\* Page k of pages has a slug and its title equals the text, ignoring case
C30_ExactTitle(pages, k, text) ==
    /\ pages[k].slug # <<>>
    /\ pages[k].title # <<>>
    /\ LowerStr(pages[k].title) = LowerStr(text)

\* C30: when a placeholder has an unknown slug and the title of some known
\* page equals its anchor text ignoring case, that page scores at least 100
\* and the placeholder is repaired: the output holds, in its place, a
\* placeholder with the same anchor text that names a known page.
C30_ExactTitleRepaired ==
    ltrace = <<"repair">> =>
        \A i \in C29_FirstPlaceholders(linput) :
            LET m == MatchPlaceholder(linput, i)
            IN  \A k \in 1..Len(lpages) :
                    (m.slug \notin C29_KnownSlugs(lpages) /\ C30_ExactTitle(lpages, k, m.text))
                    => /\ ~ScoreGreater(<<100, 1>>, PageScore(lpages[k], m.text))
                       /\ MatchPlaceholder(lcontent, i).ok
                       /\ MatchPlaceholder(lcontent, i).slug \in C29_KnownSlugs(lpages)
                       /\ MatchPlaceholder(lcontent, i).text = m.text

---------------------------------------------------------------------------
(***************************************************************************)
(* generateContent (src/index.tsx:4005-4547) for one item: the research,   *)
(* writing and reference stages up to the assembled draft, the image       *)
(* stage and the finalize stage; and the link-optimizer path.              *)
(***************************************************************************)

TARGET_MIN_WORDS == 2200
TARGET_MIN_WORDS_PILLAR == 3500
MIN_INTERNAL_LINKS == 8

NoContent == [set |-> FALSE, content |-> <<>>]

\* ---- Strings of the pipeline

PClose == <<LT, "/p", GT>>
CommentOpen == "<!-- Image generation failed for placeholder "
CommentClose == " -->"
\* A run of plain words: a paragraph text of that many words
Words2199 == "words x 2199"
Words3500 == "words x 3500"
\* The fixed text of the "Action Required: Add Image" box
ErrBoxText == "Action Required: Add Image ... Original Prompt:"

\* `[IMAGE_${i + 1}_PLACEHOLDER]`
placeholderKey(i) ==
    <<CASE i = 0 -> "[IMAGE_1_PLACEHOLDER"
        [] i = 1 -> "[IMAGE_2_PLACEHOLDER"
        [] i = 2 -> "[IMAGE_3_PLACEHOLDER"
        [] OTHER -> "[IMAGE_N_PLACEHOLDER", RB>>

\* s.split(sep) for a non-empty separator
RECURSIVE SplitOnFrom(_, _, _, _)
SplitOnFrom(s, sep, i, cur) ==
    IF i > Len(s) THEN <<cur>>
    ELSE IF i + Len(sep) - 1 <= Len(s) /\ SubSeq(s, i, i + Len(sep) - 1) = sep
    THEN <<cur>> \o SplitOnFrom(s, sep, i + Len(sep), <<>>)
    ELSE SplitOnFrom(s, sep, i + 1, Append(cur, s[i]))

SplitOn(s, sep) == SplitOnFrom(s, sep, 1, <<>>)

\* parts.join(sep)
RECURSIVE JoinWith(_, _)
JoinWith(parts, sep) ==
    IF parts = <<>> THEN <<>>
    ELSE IF Len(parts) = 1 THEN parts[1]
    ELSE parts[1] \o sep \o JoinWith(Tail(parts), sep)

\* s.indexOf(pat): the first index where pat occurs in s, 0 for none
IndexOfSeq(s, pat) ==
    LET hits == {i \in 1..(Len(s) - Len(pat) + 1) :
                    SubSeq(s, i, i + Len(pat) - 1) = pat}
    IN  IF hits = {} THEN 0 ELSE CHOOSE i \in hits : \A j \in hits : i <= j

\* s.replace(pat, by) with a string pattern: the first occurrence only
ReplaceFirst(s, pat, by) ==
    LET i == IndexOfSeq(s, pat)
    IN  IF i = 0 THEN s
        ELSE SubSeq(s, 1, i - 1) \o by \o SubSeq(s, i + Len(pat), Len(s))

\* The tokens that begin with "<", and those that end with ">"
OpensTag(t) == t \in {LT, AHREF, ACLOSE, CommentOpen}
ClosesTag(t) == t \in {GT, ACLOSE, CommentClose}

\* The first index j >= i with ClosesTag(s[j]), 0 for none
RECURSIVE IndexOfClose(_, _)
IndexOfClose(s, i) ==
    IF i > Len(s) THEN 0
    ELSE IF ClosesTag(s[i]) THEN i
    ELSE IndexOfClose(s, i + 1)

\* content.replace(/<[^>]*>/g, ' ')
RECURSIVE StripTags(_, _)
StripTags(s, i) ==
    IF i > Len(s) THEN <<>>
    ELSE LET j == IF s[i] = ACLOSE THEN i ELSE IndexOfClose(s, i + 1)
         IN  IF OpensTag(s[i]) /\ j # 0
             THEN <<WS>> \o StripTags(s, j + 1)
             ELSE <<s[i]>> \o StripTags(s, i + 1)

\* The number of words a token holds when it is text
TokWords(t) ==
    CASE t = Words2199 -> 2199
      [] t = Words3500 -> 3500
      [] t = ErrBoxText -> 28
      [] OTHER -> 1

\* The number of whitespace-separated words of s from index i on
RECURSIVE CountWords(_, _, _)
CountWords(s, i, inWord) ==
    IF i > Len(s) THEN 0
    ELSE IF s[i] = WS THEN CountWords(s, i + 1, FALSE)
    ELSE (IF inWord THEN 0 ELSE 1) + (TokWords(s[i]) - 1)
         + CountWords(s, i + 1, TRUE)

\* The word count enforceWordCount returns (lines 36-52)
enforceWordCount(content) == CountWords(StripTags(content, 1), 1, FALSE)

\* s.trim()
RECURSIVE TrimStart(_)
TrimStart(s) == IF s # <<>> /\ Head(s) = WS THEN TrimStart(Tail(s)) ELSE s
RECURSIVE TrimEnd(_)
TrimEnd(s) ==
    IF s # <<>> /\ s[Len(s)] = WS THEN TrimEnd(SubSeq(s, 1, Len(s) - 1)) ELSE s
Trim(s) == TrimEnd(TrimStart(s))

\* The first index of a token that holds "<", 0 for none
RECURSIVE IndexOfOpen(_, _)
IndexOfOpen(s, i) ==
    IF i > Len(s) THEN 0
    ELSE IF OpensTag(s[i]) THEN i
    ELSE IndexOfOpen(s, i + 1)

sanitizeHtmlResponse(rawHtml) ==
    LET \* .replace(/^FENCE(?:html)?\s*/i, '')
        a == IF rawHtml # <<>> /\ Head(rawHtml) = Fence
             THEN TrimStart(IF At(rawHtml, 2) \in {"html", "HTML"}
                            THEN SubSeq(rawHtml, 3, Len(rawHtml))
                            ELSE Tail(rawHtml))
             ELSE rawHtml
        \* .replace(/\s*FENCE$/, '')
        b == IF a # <<>> /\ a[Len(a)] = Fence
             THEN TrimEnd(SubSeq(a, 1, Len(a) - 1))
             ELSE a
        cleanedHtml == Trim(b)
        firstTagIndex == IndexOfOpen(cleanedHtml, 1)
        pretext == Trim(SubSeq(cleanedHtml, 1, firstTagIndex - 1))
    IN  IF firstTagIndex > 1 /\ CharLen(pretext) > 0 /\ CharLen(pretext) < 100
        THEN SubSeq(cleanedHtml, firstTagIndex, Len(cleanedHtml))
        ELSE cleanedHtml

\* paragraphs.splice(at, 0, x)
Splice(parts, at, x) ==
    SubSeq(parts, 1, at) \o <<x>> \o SubSeq(parts, at + 1, Len(parts))

\* The injection of one default image placeholder (lines 1331-1348)
InjectPlaceholder(content, i, at) ==
    LET key == placeholderKey(i)
        para == <<LT, "p", GT>> \o key \o PClose
        paragraphs == SplitOn(content, PClose)
    IN  IF content = <<>> \/ Includes(content, key) THEN content
        ELSE IF Len(paragraphs) > at
        THEN JoinWith(Splice(paragraphs, at, para), PClose)
        ELSE content \o para

\* The content field normalizeGeneratedContent returns (lines 1300-1379),
\* given the content and the number of image descriptors it is called with
normalizeGeneratedContent(content, nImages) ==
    IF nImages = 0
    THEN InjectPlaceholder(InjectPlaceholder(content, 0, 2), 1, 5)
    ELSE content

\* generateSchemaMarkup(generateFullSchema(...)): the @graph is never empty
SchemaMarkup == <<"<!-- wp:html --><script type=\"application/ld+json\">...</script><!-- /wp:html -->">>

\* What the image stage puts in the place of placeholderKey(i)
ImageOutcomes == {"uploaded", "nohtml", "failed", "threw"}
ImageHtml(outcome, i) ==
    CASE outcome = "uploaded" ->
            <<LT, "figure", GT, LT, "img", GT, LT, "figcaption", GT, "alt",
              LT, "/figcaption", GT, LT, "/figure", GT>>
      [] outcome = "nohtml" -> <<>>
      [] outcome = "failed" ->
            <<LT, "div", GT, ErrBoxText, WS, "alt", WS, "prompt", LT, "/div", GT>>
      [] outcome = "threw" ->
            <<CommentOpen>> \o placeholderKey(i) \o <<":", WS, "error", CommentClose>>

\* Lines 4482-4485
FinalizeLinks(content, pages) ==
    processInternalLinks(
        enforceInternalLinkQuota(
            validateAndRepairInternalLinks(
                sanitizeBrokenPlaceholders(content), pages),
            pages, MIN_INTERNAL_LINKS),
        pages)

\* ---- The inputs of generateContent

ItemTypes == {"standard", "pillar", "link-optimizer"}
GenPageLists == {<<>>, <<PgGuide>>, <<PgGuide, PgCosts>>}

\* Pieces of the drafted article
ImagePara(i) == <<LT, "p", GT>> \o placeholderKey(i) \o PClose
DraftPool == {SegValid, SegNoMatch, SegBodyGuide, SegBodyCosts,
              ImagePara(0), ImagePara(1)}
DraftTails == {<<>>, <<LT, "p", GT, Words2199, LT, "/p", GT>>,
               <<LT, "p", GT, Words3500, LT, "/p", GT>>}
Drafts == {Concat(ss) \o tail : ss \in SeqsUpTo(DraftPool, MaxDraftSegs),
                                tail \in DraftTails}

\* Replies of the internal_link_optimizer prompt
OptimizerReplies ==
    { <<>>,
      SegBodyGuide,
      SegValid \o SegBodyCosts,
      <<Fence, "html", WS>> \o SegBodyGuide \o SegValid \o <<WS, Fence>>,
      <<"Here", WS>> \o SegBodyGuide \o SegBodyCosts \o SegBodyGuide,
      ImagePara(0) \o SegNoMatch }

minWords == IF gtype = "pillar" THEN TARGET_MIN_WORDS_PILLAR ELSE TARGET_MIN_WORDS

\* What the word-count gate of lines 4491-4512 measured and raised
NoGate == [measured |-> <<>>, count |-> -1, raised |-> FALSE,
           content |-> <<>>, wordCount |-> -1, steps |-> <<>>]

ThrowTooShort == "throw ContentTooShortError"

\* The statements of the finalize stage in the order they run (lines
\* 4481-4512), given the content the link steps left, its word count and
\* whether two videos were selected (line 4487).  enforceWordCount throws by
\* itself only for an empty content (line 44); the test of the count against
\* the minimum is the statement of line 4510.
FinalizeSteps(finalProcessedContent, wordCount, twoVideos) ==
    <<"sanitizeBrokenPlaceholders", "validateAndRepairInternalLinks",
      "enforceInternalLinkQuota", "processInternalLinks">>
    \o (IF twoVideos THEN <<"enforceUniqueVideoEmbeds">> ELSE <<>>)
    \o <<"enforceWordCount">>
    \o (IF finalProcessedContent = <<>>
        THEN <<ThrowTooShort>>
        ELSE <<"generateFullSchema", "generateSchemaMarkup">>
             \o (IF wordCount < minWords THEN <<ThrowTooShort>> ELSE <<>>))

GenInit ==
    /\ gtype \in ItemTypes
    /\ gpages \in GenPageLists
    /\ gserper \in BOOLEAN
    /\ gstatus = "idle"
    /\ gpc = "idle"
    /\ gstop = FALSE
    /\ gfinal = <<>>
    /\ gimages = 0
    /\ gi = 0
    /\ gout = NoContent
    /\ ggate = NoGate

\* Lines 4478-4539, from "Stage 5/5" to SET_CONTENT or to the catch block
Finalize(finalContent, nImages) ==
    \E finalProcessedContent \in {FinalizeLinks(finalContent, gpages)} :
    \E wordCount \in {enforceWordCount(finalProcessedContent)} :
    \E content \in {normalizeGeneratedContent(finalProcessedContent, nImages)
                      \o SchemaMarkup} :
    \* error.content: enforceWordCount itself throws for an empty content
    \E carried \in {IF finalProcessedContent = <<>> THEN <<>> ELSE content} :
    \* youtubeVideos holds two videos only when the Serper searches gave them
    \E twoVideos \in (IF gserper THEN BOOLEAN ELSE {FALSE}) :
        /\ gfinal' = finalContent
        /\ gpc' = "end"
        /\ ggate' = [measured |-> finalProcessedContent,
                     count |-> wordCount,
                     raised |-> wordCount < minWords,
                     content |-> IF wordCount < minWords THEN carried ELSE <<>>,
                     wordCount |-> IF wordCount < minWords THEN wordCount ELSE -1,
                     steps |-> FinalizeSteps(finalProcessedContent, wordCount, twoVideos)]
        /\ IF wordCount < minWords
           THEN \* ContentTooShortError: SET_CONTENT, then UPDATE_STATUS error
                /\ gout' = [set |-> TRUE,
                            content |-> normalizeGeneratedContent(carried, 0)]
                /\ gstatus' = "error"
           ELSE /\ gout' = [set |-> TRUE, content |-> content]
                /\ gstatus' = "done"

\* Lines 4387-4478 after the reference stage: the stop check, then the first
\* iteration of the image loop up to its await, or finalize when there is
\* no image
AfterReferences(finalContent, nImages) ==
    IF gstop
    THEN /\ gstatus' = "idle"
         /\ gpc' = "end"
         /\ gfinal' = finalContent
         /\ UNCHANGED <<gi, gout, ggate>>
    ELSE IF nImages = 0
    THEN Finalize(finalContent, nImages) /\ UNCHANGED gi
    ELSE /\ gstatus' = "generating"
         /\ gpc' = "images"
         /\ gi' = 0
         /\ gfinal' = finalContent
         /\ UNCHANGED <<gout, ggate>>

\* handleGenerateSingle (3598-3603) and generateContent up to its first await
Generate ==
    /\ gpc = "idle"
    /\ gstop' = FALSE
    /\ gstatus' = "generating"
    /\ gpc' = IF gtype = "link-optimizer" THEN "fetch"
              ELSE IF gserper THEN "keywords" ELSE "topic"
    /\ UNCHANGED <<gtype, gpages, gserper, gfinal, gimages, gi, gout,
                   ggate>>
    /\ UNCHANGED notGen

\* handleStopGeneration(item.id): the button is shown while the item is
\* 'generating' (line 5149)
Stop ==
    /\ gstatus = "generating"
    /\ gstop' = TRUE
    /\ gstatus' = "idle"
    /\ UNCHANGED <<gtype, gpages, gserper, gpc, gfinal, gimages, gi, gout,
                   ggate>>
    /\ UNCHANGED notGen

\* Lines 4113-4163: the keyword and SERP research settles
KeywordsDone ==
    /\ gpc = "keywords"
    /\ gstatus' = "generating"
    /\ gpc' = "topic"
    /\ UNCHANGED <<gtype, gpages, gserper, gstop, gfinal, gimages, gi, gout,
                   ggate>>
    /\ UNCHANGED notGen

\* Lines 4164-4181: the semantic keywords are there; the stop check of line
\* 4174 leaves the loop over the items
TopicDone ==
    /\ gpc = "topic"
    /\ IF gstop
       THEN gpc' = "end" /\ UNCHANGED gstatus
       ELSE gpc' = "writing" /\ gstatus' = "generating"
    /\ UNCHANGED <<gtype, gpages, gserper, gstop, gfinal, gimages, gi, gout,
                   ggate>>
    /\ UNCHANGED notGen

\* Lines 4183-4283: the outline, the sections and the FAQ answers are written
WritingDone(draft, nImages) ==
    /\ gpc = "writing"
    /\ gimages' = nImages
    /\ IF gstop
       THEN /\ gstatus' = "idle"
            /\ gpc' = "end"
            /\ gfinal' = draft
            /\ UNCHANGED <<gi, gout, ggate>>
       ELSE IF gserper
       THEN /\ gstatus' = "generating"
            /\ gpc' = "refs"
            /\ gfinal' = draft
            /\ UNCHANGED <<gi, gout, ggate>>
       ELSE AfterReferences(draft, nImages)
    /\ UNCHANGED <<gtype, gpages, gserper, gstop>>
    /\ UNCHANGED notGen

\* Lines 4285-4394: the reference research settles
ReferencesDone ==
    /\ gpc = "refs"
    /\ AfterReferences(gfinal, gimages)
    /\ UNCHANGED <<gtype, gpages, gserper, gstop, gimages>>
    /\ UNCHANGED notGen

\* Lines 4398-4476: the processing of image gi settles; the loop goes on to
\* the next image, or ends (by its bound or by the stop check) and the
\* finalize stage follows in the same turn
ImageSettles(outcome) ==
    /\ gpc = "images"
    /\ LET finalContent == ReplaceFirst(gfinal, placeholderKey(gi),
                                        ImageHtml(outcome, gi))
       IN  IF gi + 1 < gimages /\ ~gstop
           THEN /\ gi' = gi + 1
                /\ gfinal' = finalContent
                /\ gstatus' = "generating"
                /\ UNCHANGED <<gpc, gout, ggate>>
           ELSE Finalize(finalContent, gimages) /\ UNCHANGED gi
    /\ UNCHANGED <<gtype, gpages, gserper, gstop, gimages>>
    /\ UNCHANGED notGen

\* An external call of the research or writing stages throws: the catch
\* block of lines 4517-4540
StageFails ==
    /\ gpc \in {"keywords", "topic", "writing"}
    /\ gstatus' = "error"
    /\ gpc' = "end"
    /\ UNCHANGED <<gtype, gpages, gserper, gstop, gfinal, gimages, gi, gout,
                   ggate>>
    /\ UNCHANGED notGen

\* Lines 4024-4052 of the link-optimizer path: the page is fetched
FetchDone ==
    /\ gpc = "fetch"
    /\ gstatus' = "generating"
    /\ gpc' = "optimize"
    /\ UNCHANGED <<gtype, gpages, gserper, gstop, gfinal, gimages, gi, gout,
                   ggate>>
    /\ UNCHANGED notGen

\* Lines 4054-4085: the optimizer replies; the reply is put back into the
\* main element of the page when there is one
OptimizeDone(reply, inMain) ==
    /\ gpc = "optimize"
    /\ LET inner == sanitizeHtmlResponse(reply)
           finalContentForPost ==
               IF inMain THEN <<LT, "main", GT>> \o inner \o <<LT, "/main", GT>>
               ELSE inner
           content == processInternalLinks(
                          normalizeGeneratedContent(finalContentForPost, 0), gpages)
       IN  /\ gfinal' = finalContentForPost
           /\ gout' = [set |-> TRUE, content |-> content]
    /\ gstatus' = "done"
    /\ gpc' = "end"
    /\ UNCHANGED <<gtype, gpages, gserper, gstop, gimages, gi, ggate>>
    /\ UNCHANGED notGen

\* The catch block of lines 4087-4089
OptimizeFails ==
    /\ gpc \in {"fetch", "optimize"}
    /\ gstatus' = "error"
    /\ gpc' = "end"
    /\ UNCHANGED <<gtype, gpages, gserper, gstop, gfinal, gimages, gi, gout,
                   ggate>>
    /\ UNCHANGED notGen

GenNext ==
    \/ Generate
    \/ Stop
    \/ KeywordsDone
    \/ TopicDone
    \/ \E d \in Drafts, n \in 0..MaxImages : WritingDone(d, n)
    \/ ReferencesDone
    \/ \E o \in ImageOutcomes : ImageSettles(o)
    \/ StageFails
    \/ FetchDone
    \/ \E r \in OptimizerReplies, m \in BOOLEAN : OptimizeDone(r, m)
    \/ OptimizeFails

\* An [INTERNAL_LINK slug="..." text="..."] placeholder occurs in s
HasLinkPlaceholder(s) == \E i \in 1..Len(s) : MatchPlaceholder(s, i).ok

\* An [IMAGE_n_PLACEHOLDER] token occurs in s
HasImagePlaceholder(s) == \E i \in 0..MaxImages : Includes(s, placeholderKey(i))

\* C9: whenever generateContent leaves an item in status done, the attached
\* content holds no unresolved [INTERNAL_LINK ...] placeholder and no
\* [IMAGE_n_PLACEHOLDER] token.
C9_DoneContentHasNoPlaceholder ==
    gstatus = "done" =>
        /\ gout.set
        /\ ~HasLinkPlaceholder(gout.content)
        /\ ~HasImagePlaceholder(gout.content)

\* C14: the word-count gate raises the short-content condition exactly when
\* the measured word count is below the item's minimum, and the raised
\* condition carries exactly the content that was measured, with its count.
C14_GateCarriesMeasuredContent ==
    ggate # NoGate =>
        /\ ggate.raised <=> ggate.count < minWords
        /\ ggate.raised =>
              /\ ggate.content = ggate.measured
              /\ ggate.wordCount = ggate.count

\* The order of the finalize steps the specification gives
C35_Order ==
    <<"sanitizeBrokenPlaceholders", "validateAndRepairInternalLinks",
      "enforceInternalLinkQuota", "processInternalLinks",
      "enforceUniqueVideoEmbeds", "enforceWordCount", "generateFullSchema",
      "generateSchemaMarkup">>

\* The place of step x in the sequence steps, 0 when it did not run
C35_Place(steps, x) ==
    IF \E i \in DOMAIN steps : steps[i] = x
    THEN CHOOSE i \in DOMAIN steps : steps[i] = x
    ELSE 0

\* C35: the steps of the finalize stage run in the order strip, repair,
\* quota, resolve, deduplicate videos, enforce word count, compute
\* structured data, append markup; and the word-count gate takes effect
\* before structured data is computed and appended: when it raises, neither
\* has run.
C35_FinalizeOrder ==
    ggate.steps # <<>> =>
        /\ \A a, b \in DOMAIN C35_Order :
              ( /\ a < b
                /\ C35_Place(ggate.steps, C35_Order[a]) # 0
                /\ C35_Place(ggate.steps, C35_Order[b]) # 0 )
              => C35_Place(ggate.steps, C35_Order[a]) < C35_Place(ggate.steps, C35_Order[b])
        /\ \A a \in {1, 2, 3, 4, 6} : C35_Place(ggate.steps, C35_Order[a]) # 0
        /\ ggate.raised =>
              /\ C35_Place(ggate.steps, ThrowTooShort) # 0
              /\ C35_Place(ggate.steps, "generateFullSchema") = 0
              /\ C35_Place(ggate.steps, "generateSchemaMarkup") = 0

---------------------------------------------------------------------------
(***************************************************************************)
(* extractJson (src/index.tsx:230-339).  A text is a sequence of tokens:   *)
(* the structural characters of JSON, whitespace, the code fence, and      *)
(* atoms (a number, a word).                                               *)
(***************************************************************************)

LBR == "{"
RBR == "}"
LSQ == "["
RSQ == "]"
COMMA == ","
COLON == ":"
BSL == "\\"
Numbers == {"1", "2", "5"}

NoResult == [threw |-> FALSE, out |-> <<>>]
Threw == [threw |-> TRUE, out |-> <<>>]
Returned(s) == [threw |-> FALSE, out |-> s]

ParseFail == [ok |-> FALSE, out |-> <<>>, next |-> 0]

\* The index of the quote that closes a string whose content starts at i,
\* 0 when the string is not closed
RECURSIVE StringEnd(_, _)
StringEnd(s, i) ==
    IF i > Len(s) THEN 0
    ELSE IF s[i] = BSL THEN StringEnd(s, i + 2)
    ELSE IF s[i] = Q THEN i
    ELSE StringEnd(s, i + 1)

\* JSON.parse, as a recursive-descent parser.  out is the value in canonical
\* form (the text without the whitespace between tokens), next the index
\* after the value.
RECURSIVE ParseValue(_, _)
RECURSIVE ParseMembers(_, _, _)
RECURSIVE ParseElements(_, _, _)
ParseValue(s, i) ==
    LET i0 == SkipWS(s, i)
        t == At(s, i0)
    IN  IF t = Q
        THEN LET e == StringEnd(s, i0 + 1)
             IN  IF e = 0 THEN ParseFail
                 ELSE [ok |-> TRUE, out |-> SubSeq(s, i0, e), next |-> e + 1]
        ELSE IF t \in Numbers
        THEN [ok |-> TRUE, out |-> <<t>>, next |-> i0 + 1]
        ELSE IF t = LBR
        THEN LET i1 == SkipWS(s, i0 + 1)
             IN  IF At(s, i1) = RBR
                 THEN [ok |-> TRUE, out |-> <<LBR, RBR>>, next |-> i1 + 1]
                 ELSE ParseMembers(s, i1, <<LBR>>)
        ELSE IF t = LSQ
        THEN LET i1 == SkipWS(s, i0 + 1)
             IN  IF At(s, i1) = RSQ
                 THEN [ok |-> TRUE, out |-> <<LSQ, RSQ>>, next |-> i1 + 1]
                 ELSE ParseElements(s, i1, <<LSQ>>)
        ELSE ParseFail

ParseMembers(s, i, acc) ==
    LET e == StringEnd(s, i + 1)
        c == SkipWS(s, e + 1)
        v == ParseValue(s, c + 1)
        n == SkipWS(s, v.next)
        member == SubSeq(s, i, e) \o <<COLON>> \o v.out
    IN  IF At(s, i) # Q \/ e = 0 \/ At(s, c) # COLON THEN ParseFail
        ELSE IF ~v.ok THEN ParseFail
        ELSE IF At(s, n) = COMMA
        THEN ParseMembers(s, SkipWS(s, n + 1), acc \o member \o <<COMMA>>)
        ELSE IF At(s, n) = RBR
        THEN [ok |-> TRUE, out |-> acc \o member \o <<RBR>>, next |-> n + 1]
        ELSE ParseFail

ParseElements(s, i, acc) ==
    LET v == ParseValue(s, i)
        n == SkipWS(s, v.next)
    IN  IF ~v.ok THEN ParseFail
        ELSE IF At(s, n) = COMMA
        THEN ParseElements(s, n + 1, acc \o v.out \o <<COMMA>>)
        ELSE IF At(s, n) = RSQ
        THEN [ok |-> TRUE, out |-> acc \o v.out \o <<RSQ>>, next |-> n + 1]
        ELSE ParseFail

\* JSON.parse(s): whether it succeeds, and the value
JSONParse(s) ==
    LET v == ParseValue(s, 1)
    IN  IF v.ok /\ SkipWS(s, v.next) = Len(s) + 1 THEN v ELSE ParseFail

\* .replace(/^FENCE(?:json)?\s*/, '').replace(/\s*FENCE$/, '').trim()
StripOuterFences(text) ==
    LET a == IF text # <<>> /\ Head(text) = Fence
             THEN TrimStart(IF At(text, 2) = "json"
                            THEN SubSeq(text, 3, Len(text))
                            ELSE Tail(text))
             ELSE text
        b == IF a # <<>> /\ a[Len(a)] = Fence
             THEN TrimEnd(SubSeq(a, 1, Len(a) - 1))
             ELSE a
    IN  Trim(b)

\* .replace(/FENCEjson\s*/gi, '').replace(/FENCE\s*/g, '')
RECURSIVE RemoveFences(_, _)
RemoveFences(s, i) ==
    IF i > Len(s) THEN <<>>
    ELSE IF s[i] = Fence
    THEN RemoveFences(s, SkipWS(s, IF At(s, i + 1) \in {"json", "JSON"}
                                   THEN i + 2 ELSE i + 1))
    ELSE <<s[i]>> \o RemoveFences(s, i + 1)

\* .replace(/,(\s*[}\]])/g, '$1') and .replace(/,(?=\s*[}\]])/g, ''): every
\* comma that only whitespace separates from a closing bracket is dropped,
\* inside string literals too
RECURSIVE RemoveTrailingCommas(_, _)
RemoveTrailingCommas(s, i) ==
    IF i > Len(s) THEN <<>>
    ELSE IF s[i] = COMMA /\ At(s, SkipWS(s, i + 1)) \in {RBR, RSQ}
    THEN RemoveTrailingCommas(s, i + 1)
    ELSE <<s[i]>> \o RemoveTrailingCommas(s, i + 1)

\* cleanedText.indexOf('{') and indexOf('[') combined: startIndex, 0 for none
RECURSIVE StartIndex(_, _)
StartIndex(s, i) ==
    IF i > Len(s) THEN 0
    ELSE IF s[i] \in {LBR, LSQ} THEN i
    ELSE StartIndex(s, i + 1)

EndCharOf(startChar) == IF startChar = LBR THEN RBR ELSE RSQ

\* The balancing loop of lines 279-305 from index i on (the first token has
\* index 1): endIndex (0 for none) and the final balance
RECURSIVE Balance(_, _, _, _, _)
Balance(s, i, balance, inString, escapeNext) ==
    IF i > Len(s) THEN [endIndex |-> 0, balance |-> balance]
    ELSE IF escapeNext THEN Balance(s, i + 1, balance, inString, FALSE)
    ELSE IF s[i] = BSL THEN Balance(s, i + 1, balance, inString, TRUE)
    ELSE LET inStr == IF s[i] = Q THEN ~inString ELSE inString
             bal == IF inStr THEN balance
                    ELSE IF s[i] = s[1] THEN balance + 1
                    ELSE IF s[i] = EndCharOf(s[1]) THEN balance - 1
                    ELSE balance
         IN  IF ~inStr /\ bal = 0 THEN [endIndex |-> i, balance |-> 0]
             ELSE Balance(s, i + 1, bal, inStr, FALSE)

\* endChar.repeat(n)
RECURSIVE Repeat(_, _)
Repeat(t, n) == IF n <= 0 THEN <<>> ELSE <<t>> \o Repeat(t, n - 1)

\* Lines 307-318
JsonCandidate(potentialJson) ==
    LET b == Balance(potentialJson, 2, 1, FALSE, FALSE)
    IN  IF b.endIndex # 0 THEN SubSeq(potentialJson, 1, b.endIndex)
        ELSE potentialJson \o Repeat(EndCharOf(potentialJson[1]), b.balance)

extractJson(text) ==
    IF Trim(text) = <<>> THEN Threw
    ELSE IF JSONParse(text).ok THEN Returned(text)
    ELSE LET cleanedText ==
                 RemoveTrailingCommas(
                     RemoveFences(StripOuterFences(text), 1), 1)
             startIndex == StartIndex(cleanedText, 1)
             jsonCandidate ==
                 JsonCandidate(SubSeq(cleanedText, startIndex, Len(cleanedText)))
             repaired == RemoveTrailingCommas(jsonCandidate, 1)
         IN  IF startIndex = 0 THEN Threw
             ELSE IF JSONParse(jsonCandidate).ok THEN Returned(jsonCandidate)
             ELSE IF JSONParse(repaired).ok THEN Returned(repaired)
             ELSE Threw

\* The JSON documents of the model, as token sequences
DocNested == <<LBR, Q, "a", Q, COLON, "1", COMMA,
               Q, "b", Q, COLON, LSQ, "1", COMMA, "2", RSQ, RBR>>
DocArray == <<LSQ, "1", COMMA, LBR, Q, "a", Q, COLON, "2", RBR, RSQ>>
DocObjects == <<LBR, Q, "a", Q, COLON, LBR, Q, "b", Q, COLON, "1", RBR, RBR>>
DocArrays == <<LSQ, LSQ, "1", RSQ, COMMA, LSQ, "2", RSQ, RSQ>>
DocCommaInString == <<LBR, Q, "a", Q, COLON, Q, "x", COMMA, RBR, Q, RBR>>
DocEscapedQuote == <<LBR, Q, "a", Q, COLON, Q, BSL, Q, "x", Q, RBR>>
DocSpaced == <<LBR, WS, Q, "a", Q, COLON, WS, "1", WS, RBR>>
DocScalar == <<"5">>
Docs == {DocNested, DocArray, DocObjects, DocArrays, DocCommaInString,
         DocEscapedQuote, DocSpaced, DocScalar}

LeadingProse == {<<>>, <<"Here", WS, "is", WS, "the", WS, "result", COLON, WS>>}
TrailingProse == {<<>>, <<WS, "Done", DOT>>}
OpeningFences == {<<Fence, "json", WS>>, <<Fence, WS>>}
ClosingFence == <<WS, Fence>>

Embedded(doc) ==
    {pre \o open \o doc \o ClosingFence \o post :
        pre \in LeadingProse, open \in OpeningFences, post \in TrailingProse}

Truncated(doc) == {SubSeq(doc, 1, n) : n \in 1..(Len(doc) - 1)}

JsonInit ==
    /\ jdoc \in Docs
    /\ jkind \in {"plain", "truncated", "embedded"}
    /\ jtext \in CASE jkind = "plain" -> {jdoc}
                   [] jkind = "truncated" -> Truncated(jdoc)
                   [] jkind = "embedded" -> Embedded(jdoc)
    /\ jpc = "start"
    /\ jres = NoResult

\* One call extractJson(jtext)
Extract ==
    /\ jpc = "start"
    /\ jres' = extractJson(jtext)
    /\ jpc' = "done"
    /\ UNCHANGED <<jtext, jdoc, jkind>>
    /\ UNCHANGED notJson

JsonNext == Extract

\* The brackets still open at the end of s, innermost first; <<"?">> when s
\* ends inside a string literal or closes a bracket that is not open
RECURSIVE OpenBrackets(_, _, _)
OpenBrackets(s, i, stack) ==
    IF i > Len(s) THEN stack
    ELSE IF s[i] = Q
    THEN LET e == StringEnd(s, i + 1)
         IN  IF e = 0 THEN <<"?">> ELSE OpenBrackets(s, e + 1, stack)
    ELSE IF s[i] \in {LBR, LSQ} THEN OpenBrackets(s, i + 1, <<s[i]>> \o stack)
    ELSE IF s[i] \in {RBR, RSQ}
    THEN IF stack # <<>> /\ s[i] = EndCharOf(Head(stack))
         THEN OpenBrackets(s, i + 1, Tail(stack))
         ELSE <<"?">>
    ELSE OpenBrackets(s, i + 1, stack)

Closers(stack) == [k \in 1..Len(stack) |-> EndCharOf(stack[k])]

\* s is cut off with structures still open, and closing them in the right
\* kind and order gives a text that parses
CutOffWithOpenStructures(s) ==
    LET stack == OpenBrackets(s, 1, <<>>)
    IN  /\ stack # <<>>
        /\ stack # <<"?">>
        /\ JSONParse(s \o Closers(stack)).ok

\* C12: for an input cut off with structures still open, extractJson returns
\* a string that parses successfully
C12_TruncatedJsonRecovered ==
    ( /\ jpc = "done"
      /\ jkind = "truncated"
      /\ CutOffWithOpenStructures(jtext) )
        => /\ ~jres.threw
           /\ JSONParse(jres.out).ok

\* C13: for a valid JSON object or array wrapped in code fences inside
\* leading and trailing prose, extractJson returns a string that parses to
\* the same value
C13_EmbeddedJsonRoundTrip ==
    ( /\ jpc = "done"
      /\ jkind = "embedded"
      /\ jdoc # DocScalar )
        => /\ ~jres.threw
           /\ JSONParse(jres.out).ok
           /\ JSONParse(jres.out).out = JSONParse(jdoc).out

---------------------------------------------------------------------------
(***************************************************************************)
(* generateContent over a batch (src/index.tsx:4005-4547): the loop over   *)
(* the items, the stop flags, the statuses, the completed counter and the  *)
(* reported progress.  The text of a content is left out here: a content   *)
(* is known by its origin ("none", "old" from an older run, "article" and  *)
(* "short body" from this run).  How many sections, questions and images   *)
(* the outline holds shows as the loops go on, up to the bounds.           *)
(***************************************************************************)

MaxBatch == 2
MaxSections == 2
MaxFaqs == 2

NoProgress == [current |-> 0, total |-> 0]

Items == 1..itemsToGenerate

\* The stages of one item, in the order of the code of lines 4097-4515
Stages == <<"research", "outline", "sections", "faqs", "references",
            "images", "finalize">>

\* The stage a status text of UPDATE_STATUS 'generating' belongs to
StageOfStatus(text) ==
    CASE text \in {"Stage 1/6: Researching High-Value Keywords...",
                   "Stage 2/6: Fetching SERP Data...",
                   "Stage 1/5: Analyzing Topic..."} -> "research"
      [] text = "Stage 3/6: Generating Article Outline..." -> "outline"
      [] text = "Stage 3/5: Writing section..." -> "sections"
      [] text = "Stage 3/5: Answering FAQ..." -> "faqs"
      [] text \in {"Stage 3/5: Finding Real Sources...",
                   "Stage 5/6: Researching Credible Sources..."} -> "references"
      [] text \in {"Stage 4/5: Processing images...",
                   "Stage 4/5: Processing image..."} -> "images"
      [] text = "Stage 5/5: Finalizing Content..." -> "finalize"

\* The stages an item's run has published, after one more dispatch of
\* UPDATE_STATUS 'generating' with the given text
Published(hist, text) ==
    LET stage == StageOfStatus(text)
    IN  IF hist # <<>> /\ hist[Len(hist)] = stage THEN hist
        ELSE Append(hist, stage)

Set(f, i, v) == [f EXCEPT ![i] = v]

\* Lines 4016-4020 and 4109-4168: the first await of item j, and what the
\* run publishes on the way there
FirstAwait(j) ==
    IF itemType[j] = "link-optimizer" THEN "fetch"
    ELSE IF serperValid THEN "keywords" ELSE "topic"

FirstPublished(j) ==
    IF itemType[j] = "link-optimizer" THEN <<>>
    ELSE IF serperValid
    THEN Published(<<>>, "Stage 1/6: Researching High-Value Keywords...")
    ELSE Published(<<>>, "Stage 1/5: Analyzing Topic...")

\* Line 4009: the first item from position from on that is not stopped
RECURSIVE NextIndex(_, _)
NextIndex(from, stopped) ==
    IF from > itemsToGenerate THEN from
    ELSE IF from \in stopped THEN NextIndex(from + 1, stopped)
    ELSE from

\* Lines 4008-4020 and 4546: the loop goes on from position from, up to the
\* first await of the next item, or ends
NextItem(status, hist, from) ==
    LET j == NextIndex(from, stopGenerationRef)
    IN  /\ itemIndex' = j
        /\ loopIndex' = 0
        /\ IF j > itemsToGenerate
           THEN /\ awaiting' = "returned"
                /\ isGenerating' = FALSE
                /\ itemStatus' = status
                /\ published' = hist
           ELSE /\ awaiting' = FirstAwait(j)
                /\ itemStatus' = Set(status, j, "generating")
                /\ published' = Set(hist, j, FirstPublished(j))
                /\ UNCHANGED isGenerating

\* Leave with the counter incremented at the end of the try block instead of
\* in the finally block
LeaveCountsSuccess(status, content, hist, exits, how) ==
    /\ generatedCount' = IF how = "none" THEN generatedCount + 1
                         ELSE generatedCount
    /\ generationProgress' = [current |-> generatedCount',
                              total |-> itemsToGenerate]
    /\ itemContent' = content
    /\ failed' = IF how = "none" THEN failed ELSE Set(failed, itemIndex, how)
    /\ IF exits
       THEN /\ awaiting' = "returned"
            /\ isGenerating' = FALSE
            /\ itemStatus' = status
            /\ published' = Set(published, itemIndex, hist)
            /\ loopIndex' = 0
            /\ UNCHANGED itemIndex
       ELSE NextItem(status, Set(published, itemIndex, hist), itemIndex + 1)

\* The run leaves the try block of the item: the finally block (lines
\* 4091-4094 and 4541-4544), then the loop goes on, or ends when a break
\* left it
Leave(status, content, hist, exits, how) ==
    /\ generatedCount' = generatedCount + 1
    /\ generationProgress' = [current |-> generatedCount + 1,
                              total |-> itemsToGenerate]
    /\ itemContent' = content
    /\ failed' = IF how = "none" THEN failed ELSE Set(failed, itemIndex, how)
    /\ IF exits
       THEN /\ awaiting' = "returned"
            /\ isGenerating' = FALSE
            /\ itemStatus' = status
            /\ published' = Set(published, itemIndex, hist)
            /\ loopIndex' = 0
            /\ UNCHANGED itemIndex
       ELSE NextItem(status, Set(published, itemIndex, hist), itemIndex + 1)

\* The run stays in the item: UPDATE_STATUS 'generating', then the next await
Stay(at, k, hist) ==
    /\ itemStatus' = Set(itemStatus, itemIndex, "generating")
    /\ awaiting' = at
    /\ loopIndex' = k
    /\ published' = Set(published, itemIndex, hist)
    /\ UNCHANGED <<itemContent, itemIndex, generatedCount, generationProgress,
                   isGenerating, failed>>

Stopped == itemIndex \in stopGenerationRef

\* RunFinalize without the SET_CONTENT of the catch block
RunFinalizeDiscards(hist, short) ==
    LET h == Published(hist, "Stage 5/5: Finalizing Content...")
    IN  IF short
        THEN Leave(Set(itemStatus, itemIndex, "error"), itemContent, h, FALSE,
                   "short")
        ELSE Leave(Set(itemStatus, itemIndex, "done"),
                   Set(itemContent, itemIndex, "article"), h, FALSE, "none")

\* Lines 4478-4540: the finalize stage; short is wordCount < minWords
RunFinalize(hist, short) ==
    LET h == Published(hist, "Stage 5/5: Finalizing Content...")
    IN  IF short
        THEN \* ContentTooShortError: SET_CONTENT, then UPDATE_STATUS error
             Leave(Set(itemStatus, itemIndex, "error"),
                   Set(itemContent, itemIndex, "short body"), h, FALSE, "short")
        ELSE Leave(Set(itemStatus, itemIndex, "done"),
                   Set(itemContent, itemIndex, "article"), h, FALSE, "none")

\* RefsOver with the status of the reference stage published once more
\* when the image loop starts
RefsOverRepublishes(hist, images, short) ==
    IF Stopped
    THEN Leave(Set(itemStatus, itemIndex, "idle"), itemContent, hist, FALSE,
               "none")
    ELSE LET h == Published(Published(hist, "Stage 4/5: Processing images..."),
                            "Stage 3/5: Finding Real Sources...")
         IN  IF images
             THEN Stay("images", 0, Published(h, "Stage 4/5: Processing image..."))
             ELSE RunFinalize(h, short)

\* Lines 4387-4478: the stop check after the reference stage (continue),
\* then the image loop up to its first await, or finalize without an image
RefsOver(hist, images, short) ==
    IF Stopped
    THEN Leave(Set(itemStatus, itemIndex, "idle"), itemContent, hist, FALSE,
               "none")
    ELSE LET h == Published(hist, "Stage 4/5: Processing images...")
         IN  IF images
             THEN Stay("images", 0, Published(h, "Stage 4/5: Processing image..."))
             ELSE RunFinalize(h, short)

\* Lines 4266-4387: the stop check after the writing loops (break), then
\* the reference stage up to its first await
WritingOver(images, short) ==
    IF Stopped
    THEN Leave(Set(itemStatus, itemIndex, "idle"), itemContent,
               published[itemIndex], TRUE, "none")
    ELSE LET h == Published(published[itemIndex],
                            "Stage 3/5: Finding Real Sources...")
         IN  IF serperValid
             THEN Stay("refs", 0,
                       Published(h, "Stage 5/6: Researching Credible Sources..."))
             ELSE RefsOver(h, images, short)

\* Lines 4252-4266: the loop over the questions up to its first await
FaqLoop(faqs, images, short) ==
    IF faqs /\ ~Stopped
    THEN Stay("faqs", 0,
              Published(published[itemIndex], "Stage 3/5: Answering FAQ..."))
    ELSE WritingOver(images, short)

runInputs == <<itemsToGenerate, itemType, hadContent, serperValid>>

RunInit ==
    /\ itemsToGenerate \in 1..MaxBatch
    /\ itemType \in [1..itemsToGenerate -> {"standard", "link-optimizer"}]
    /\ hadContent \in BOOLEAN
    /\ serperValid \in BOOLEAN
    /\ itemStatus = [i \in 1..itemsToGenerate |->
                        IF hadContent THEN "done" ELSE "idle"]
    /\ itemContent = [i \in 1..itemsToGenerate |->
                        IF hadContent THEN "old" ELSE "none"]
    /\ stopGenerationRef = {}
    /\ itemIndex = 0
    /\ awaiting = "idle"
    /\ loopIndex = 0
    /\ published = [i \in 1..itemsToGenerate |-> <<>>]
    /\ generatedCount = 0
    /\ generationProgress = NoProgress
    /\ isGenerating = FALSE
    /\ failed = [i \in 1..itemsToGenerate |-> "none"]
    /\ stoppedWhileGenerating = {}

\* handleGenerateSelected (3605-3613) with every item selected, and
\* generateContent up to the first await of the first item
GenerateSelected ==
    /\ awaiting = "idle"
    /\ stopGenerationRef' = {}
    /\ isGenerating' = TRUE
    /\ generationProgress' = [current |-> 0, total |-> itemsToGenerate]
    /\ generatedCount' = 0
    /\ itemIndex' = 1
    /\ loopIndex' = 0
    /\ itemStatus' = Set(itemStatus, 1, "generating")
    /\ awaiting' = FirstAwait(1)
    /\ published' = Set(published, 1, FirstPublished(1))
    /\ UNCHANGED <<itemContent, failed, stoppedWhileGenerating>>
    /\ UNCHANGED runInputs
    /\ UNCHANGED notRun

Running == awaiting \notin {"idle", "returned"}

\* handleStopGeneration(itemId) (3615-3621): the button is shown while the
\* item is 'generating' (line 5149)
StopItem(i) ==
    /\ itemStatus[i] = "generating"
    /\ stopGenerationRef' = stopGenerationRef \cup {i}
    /\ itemStatus' = Set(itemStatus, i, "idle")
    /\ stoppedWhileGenerating' =
           IF Running /\ i = itemIndex THEN stoppedWhileGenerating \cup {i}
           ELSE stoppedWhileGenerating
    /\ UNCHANGED <<itemContent, itemIndex, awaiting, loopIndex, published,
                   generatedCount, generationProgress, isGenerating, failed>>
    /\ UNCHANGED runInputs
    /\ UNCHANGED notRun

\* handleStopGeneration() (3622-3634): the button is shown while isGenerating
\* (line 5109)
StopAll ==
    /\ isGenerating
    /\ LET generating == {i \in Items : itemStatus[i] = "generating"}
       IN  /\ stopGenerationRef' = stopGenerationRef \cup generating
           /\ itemStatus' = [i \in Items |->
                                IF i \in generating THEN "idle" ELSE itemStatus[i]]
           /\ stoppedWhileGenerating' =
                  IF Running /\ itemIndex \in generating
                  THEN stoppedWhileGenerating \cup {itemIndex}
                  ELSE stoppedWhileGenerating
    /\ isGenerating' = FALSE
    /\ UNCHANGED <<itemContent, itemIndex, awaiting, loopIndex, published,
                   generatedCount, generationProgress, failed>>
    /\ UNCHANGED runInputs
    /\ UNCHANGED notRun

\* Lines 4113-4127: the keyword research settles
RunKeywordsDone ==
    /\ awaiting = "keywords"
    /\ Stay("serp", 0, Published(published[itemIndex],
                                 "Stage 2/6: Fetching SERP Data..."))
    /\ UNCHANGED <<stopGenerationRef, stoppedWhileGenerating>>
    /\ UNCHANGED runInputs
    /\ UNCHANGED notRun

\* Lines 4127-4168: the SERP research settles; its failure is caught at
\* line 4157 and changes nothing
RunSerpDone ==
    /\ awaiting = "serp"
    /\ Stay("topic", 0, Published(published[itemIndex],
                                  "Stage 1/5: Analyzing Topic..."))
    /\ UNCHANGED <<stopGenerationRef, stoppedWhileGenerating>>
    /\ UNCHANGED runInputs
    /\ UNCHANGED notRun

\* Lines 4168-4183: the semantic keywords are there; the stop check of line
\* 4174 leaves the loop over the items
RunTopicDone ==
    /\ awaiting = "topic"
    /\ IF Stopped
       THEN Leave(itemStatus, itemContent, published[itemIndex], TRUE, "none")
       ELSE Stay("outline", 0,
                 Published(published[itemIndex],
                           "Stage 3/6: Generating Article Outline..."))
    /\ UNCHANGED <<stopGenerationRef, stoppedWhileGenerating>>
    /\ UNCHANGED runInputs
    /\ UNCHANGED notRun

\* Lines 4183-4231: the outline is there; the loop over the sections starts
RunOutlineDone(sections, faqs, images, short) ==
    /\ awaiting = "outline"
    /\ IF sections /\ ~Stopped
       THEN Stay("sections", 0,
                 Published(published[itemIndex], "Stage 3/5: Writing section..."))
       ELSE FaqLoop(faqs, images, short)
    /\ UNCHANGED <<stopGenerationRef, stoppedWhileGenerating>>
    /\ UNCHANGED runInputs
    /\ UNCHANGED notRun

\* Lines 4231-4252: a section is written; more says that it is not the last
RunSectionDone(more, faqs, images, short) ==
    /\ awaiting = "sections"
    /\ IF more /\ loopIndex + 1 < MaxSections /\ ~Stopped
       THEN Stay("sections", loopIndex + 1,
                 Published(published[itemIndex], "Stage 3/5: Writing section..."))
       ELSE FaqLoop(faqs, images, short)
    /\ UNCHANGED <<stopGenerationRef, stoppedWhileGenerating>>
    /\ UNCHANGED runInputs
    /\ UNCHANGED notRun

\* Lines 4261-4266: an answer is written; more says that it is not the last
RunFaqDone(more, images, short) ==
    /\ awaiting = "faqs"
    /\ IF more /\ loopIndex + 1 < MaxFaqs /\ ~Stopped
       THEN Stay("faqs", loopIndex + 1,
                 Published(published[itemIndex], "Stage 3/5: Answering FAQ..."))
       ELSE WritingOver(images, short)
    /\ UNCHANGED <<stopGenerationRef, stoppedWhileGenerating>>
    /\ UNCHANGED runInputs
    /\ UNCHANGED notRun

\* Lines 4285-4394: the reference research settles
RunReferencesDone(images, short) ==
    /\ awaiting = "refs"
    /\ RefsOver(published[itemIndex], images, short)
    /\ UNCHANGED <<stopGenerationRef, stoppedWhileGenerating>>
    /\ UNCHANGED runInputs
    /\ UNCHANGED notRun

\* Lines 4398-4478: the processing of an image settles; the loop goes on,
\* or ends (by its bound or by the stop check of line 4399) and the finalize
\* stage follows in the same turn
RunImageSettles(more, short) ==
    /\ awaiting = "images"
    /\ IF more /\ loopIndex + 1 < MaxImages /\ ~Stopped
       THEN Stay("images", loopIndex + 1,
                 Published(published[itemIndex], "Stage 4/5: Processing image..."))
       ELSE RunFinalize(published[itemIndex], short)
    /\ UNCHANGED <<stopGenerationRef, stoppedWhileGenerating>>
    /\ UNCHANGED runInputs
    /\ UNCHANGED notRun

\* RunStageFails with the exception leaving the loop over the items
RunStageFailsAborts ==
    /\ awaiting \in {"keywords", "topic", "outline", "sections", "faqs"}
    /\ Leave(Set(itemStatus, itemIndex, "error"), itemContent,
             published[itemIndex], TRUE, "exception")
    /\ UNCHANGED <<stopGenerationRef, stoppedWhileGenerating>>
    /\ UNCHANGED runInputs
    /\ UNCHANGED notRun

\* An external call of the research or writing stages throws an Error: the
\* catch block of lines 4517-4540
RunStageFails ==
    /\ awaiting \in {"keywords", "topic", "outline", "sections", "faqs"}
    /\ Leave(Set(itemStatus, itemIndex, "error"), itemContent,
             published[itemIndex], FALSE, "exception")
    /\ UNCHANGED <<stopGenerationRef, stoppedWhileGenerating>>
    /\ UNCHANGED runInputs
    /\ UNCHANGED notRun

\* Lines 4024-4052 of the link-optimizer path: the page is fetched
RunFetchDone ==
    /\ awaiting = "fetch"
    /\ Stay("optimize", 0, published[itemIndex])
    /\ UNCHANGED <<stopGenerationRef, stoppedWhileGenerating>>
    /\ UNCHANGED runInputs
    /\ UNCHANGED notRun

\* Lines 4054-4085 and 4091-4095: the optimizer replies, SET_CONTENT
RunOptimizeDone ==
    /\ awaiting = "optimize"
    /\ Leave(Set(itemStatus, itemIndex, "done"),
             Set(itemContent, itemIndex, "article"),
             published[itemIndex], FALSE, "none")
    /\ UNCHANGED <<stopGenerationRef, stoppedWhileGenerating>>
    /\ UNCHANGED runInputs
    /\ UNCHANGED notRun

\* The catch block of lines 4087-4095
RunOptimizeFails ==
    /\ awaiting \in {"fetch", "optimize"}
    /\ Leave(Set(itemStatus, itemIndex, "error"), itemContent,
             published[itemIndex], FALSE, "exception")
    /\ UNCHANGED <<stopGenerationRef, stoppedWhileGenerating>>
    /\ UNCHANGED runInputs
    /\ UNCHANGED notRun

RunNext ==
    \/ GenerateSelected
    \/ \E i \in Items : StopItem(i)
    \/ StopAll
    \/ RunKeywordsDone
    \/ RunSerpDone
    \/ RunTopicDone
    \/ \E s, f, g, short \in BOOLEAN : RunOutlineDone(s, f, g, short)
    \/ \E m, f, g, short \in BOOLEAN : RunSectionDone(m, f, g, short)
    \/ \E m, g, short \in BOOLEAN : RunFaqDone(m, g, short)
    \/ \E g, short \in BOOLEAN : RunReferencesDone(g, short)
    \/ \E m, short \in BOOLEAN : RunImageSettles(m, short)
    \/ RunStageFails
    \/ RunFetchDone
    \/ RunOptimizeDone
    \/ RunOptimizeFails

\* generateContent has finished with item i
Finished(i) == i < itemIndex \/ (awaiting = "returned" /\ i <= itemIndex)

\* The content item i held before the run
ContentBefore(i) == IF hadContent THEN "old" ELSE "none"

\* The place of a stage in Stages
Rank(stage) == CHOOSE k \in 1..Len(Stages) : Stages[k] = stage

\* C15: an item whose stop flag was set while generateContent was
\* generating it has status idle once generateContent has finished with it
\* (stated here for the runs in which no stage throws).
C15_StoppedItemEndsIdle ==
    \A i \in Items :
        (i \in stoppedWhileGenerating /\ Finished(i) /\ failed[i] # "exception")
            => itemStatus[i] = "idle"

\* C16: an exception in the run of one item puts that item in error, leaves
\* the status and the content of every other item as they are, and the loop
\* goes on with the next item; without a stop, every item of the batch ends
\* done or in error.
C16_FailureStaysInItem ==
    /\ [][\A i \in Items :
            (failed[i] = "none" /\ failed'[i] # "none") =>
                /\ itemStatus'[i] = "error"
                /\ \A j \in Items \ {i} :
                      /\ itemContent'[j] = itemContent[j]
                      /\ \/ itemStatus'[j] = itemStatus[j]
                         \/ (j = i + 1 /\ itemStatus'[j] = "generating")
                /\ (i < itemsToGenerate /\ (i + 1) \notin stopGenerationRef) =>
                      /\ itemIndex' = i + 1
                      /\ itemStatus'[i + 1] = "generating"
                      /\ awaiting' \in {"fetch", "keywords", "topic"}]_vars
    /\ [](awaiting = "returned" /\ stoppedWhileGenerating = {} =>
              \A i \in Items :
                  \/ (itemStatus[i] = "error" /\ failed[i] # "none")
                  \/ (itemStatus[i] = "done" /\ itemContent[i] = "article"))

C16_Witness ==
    /\ itemsToGenerate >= 2
    /\ failed[1] = "exception"
    /\ itemStatus[1] = "error"
    /\ awaiting = "returned"
    /\ itemStatus[2] = "done"
    /\ itemContent[2] = "article"

\* C17: without a stop, the completed counter is the number of items the
\* run has finished with, failed ones included, and the last reported
\* progress of the batch is current = total = n.
C17_FailuresCounted ==
    (awaiting # "idle" /\ stoppedWhileGenerating = {}) =>
        /\ generatedCount = Cardinality({i \in Items : Finished(i)})
        /\ \A i \in Items : failed[i] # "none" => Finished(i)
        /\ generationProgress = [current |-> generatedCount,
                                 total |-> itemsToGenerate]
        /\ awaiting = "returned" =>
               generationProgress = [current |-> itemsToGenerate,
                                     total |-> itemsToGenerate]

C17_Witness ==
    /\ awaiting = "returned"
    /\ stoppedWhileGenerating = {}
    /\ itemsToGenerate >= 2
    /\ failed[1] = "exception"
    /\ failed[2] = "short"
    /\ generationProgress = [current |-> itemsToGenerate,
                             total |-> itemsToGenerate]

\* C18: after a short-content failure the item is in error with the
\* deficient body of the run as its content; after any other exception the
\* item is in error and holds the content it held before the run.
C18_ErrorContent ==
    \A i \in Items :
        Finished(i) =>
            /\ failed[i] = "short" =>
                   itemStatus[i] = "error" /\ itemContent[i] = "short body"
            /\ failed[i] = "exception" =>
                   itemStatus[i] = "error" /\ itemContent[i] = ContentBefore(i)

C18_Witness ==
    /\ itemsToGenerate >= 2
    /\ hadContent
    /\ failed[1] = "short" /\ itemContent[1] = "short body"
    /\ failed[2] = "exception" /\ itemContent[2] = "old"
    /\ Finished(2)

\* C19: the stages an item's run publishes come in the order research,
\* outline, sections, FAQs, references, images, finalize, none of them after
\* a later one; an article is attached only after the finalize stage.
C19_StagesInOrder ==
    \A i \in Items :
        /\ \A a, b \in DOMAIN published[i] :
              a < b => Rank(published[i][a]) < Rank(published[i][b])
        /\ (itemType[i] = "standard" /\ itemContent[i] \in {"article", "short body"}) =>
              /\ published[i] # <<>>
              /\ published[i][Len(published[i])] = "finalize"

C19_Witness ==
    /\ published[1] = Stages
    /\ itemStatus[1] = "done"
    /\ Finished(1)

\* C36: once generateContent has returned, no item of the batch is left in
\* status generating, whenever the stop requests arrived during the run.
C36_NoItemLeftGenerating ==
    awaiting = "returned" =>
        \A i \in Items : itemStatus[i] \in {"done", "error", "idle"}

\* The run has generated item i: it holds what the run attached, or the
\* failure of the run
GeneratedByRun(i) ==
    \/ (itemStatus[i] = "done" /\ itemContent[i] = "article")
    \/ (itemStatus[i] = "error" /\ failed[i] # "none")

\* C37: a run that only saw stop requests for single items (Stop All was not
\* pressed, so isGenerating is still set when the run ends) has, when it
\* returns, generated every item of the batch that has no stop flag.
C37_OtherItemsStillGenerated ==
    [][(Running /\ isGenerating /\ awaiting' = "returned") =>
           \A i \in Items \ stopGenerationRef' : GeneratedByRun(i)']_vars

---------------------------------------------------------------------------
(***************************************************************************)
(* fetchWordPressWithRetry (src/index.tsx:613-723)                         *)
(***************************************************************************)

NoWpResult == [kind |-> "pending", value |-> "none"]

\* How a fetch settles: a response (by its status, or of type opaque), or a
\* rejection (by the name of the error; "TypeError" is one whose message
\* holds 'fetch')
Responses == {"200", "304", "404", "500"}
Rejections == {"AbortError", "TypeError", "Error"}
FetchOutcomes == Responses \cup {"opaque"} \cup Rejections

\* response.ok || (response.status >= 400 && response.status < 500)
OkOrClientError(outcome) == outcome \in {"200", "404"}

\* The proxies of lines 686-689
Proxies == <<"corsproxy.io", "api.allorigins.win">>

Attempt(to) == [to |-> to, outcome |-> "pending"]

Settled(attempts, outcome) ==
    [attempts EXCEPT ![Len(attempts)].outcome = outcome]

WpInit ==
    /\ hasAuthHeader \in BOOLEAN
    /\ wpAwaiting = "idle"
    /\ wpAttempts = <<>>
    /\ wpLastError = "null"
    /\ wpResult = NoWpResult

\* Lines 613-633 and 669-674: the call, up to the direct fetch
WpCall ==
    /\ wpAwaiting = "idle"
    /\ wpAwaiting' = "direct"
    /\ wpAttempts' = <<Attempt("direct")>>
    /\ UNCHANGED <<hasAuthHeader, wpLastError, wpResult>>
    /\ UNCHANGED notWp

\* WpDirectSettles with an authenticated request falling back to the proxies
\* when the direct fetch fails
WpDirectSettlesFallsBack(outcome) ==
    /\ wpAwaiting = "direct"
    /\ IF OkOrClientError(outcome)
       THEN /\ wpResult' = [kind |-> "returned", value |-> outcome]
            /\ wpAwaiting' = "done"
            /\ wpAttempts' = Settled(wpAttempts, outcome)
            /\ UNCHANGED wpLastError
       ELSE /\ wpLastError' = outcome
            /\ wpAwaiting' = "proxy"
            /\ wpAttempts' = Append(Settled(wpAttempts, outcome),
                                    Attempt(Proxies[1]))
            /\ UNCHANGED wpResult
    /\ UNCHANGED hasAuthHeader
    /\ UNCHANGED notWp

\* The direct fetch settles: lines 633-664 for an authenticated request,
\* lines 674-689 otherwise
WpDirectSettles(outcome) ==
    /\ wpAwaiting = "direct"
    /\ IF hasAuthHeader
       THEN /\ wpResult' =
                 IF outcome \in Responses
                 THEN [kind |-> "returned", value |-> outcome]
                 ELSE [kind |-> "thrown",
                       value |-> CASE outcome = "opaque" -> "CORS policy blocked the request"
                                   [] outcome = "AbortError" -> "request timed out after 30 seconds"
                                   [] outcome = "TypeError" -> "CORS or Network Error"
                                   [] OTHER -> outcome]
            /\ wpAwaiting' = "done"
            /\ wpAttempts' = Settled(wpAttempts, outcome)
            /\ UNCHANGED wpLastError
       ELSE IF OkOrClientError(outcome)
       THEN /\ wpResult' = [kind |-> "returned", value |-> outcome]
            /\ wpAwaiting' = "done"
            /\ wpAttempts' = Settled(wpAttempts, outcome)
            /\ UNCHANGED wpLastError
       ELSE /\ wpLastError' = IF outcome \in Rejections THEN outcome
                              ELSE "Direct connection failed with status"
            /\ wpAwaiting' = "proxy"
            /\ wpAttempts' = Append(Settled(wpAttempts, outcome),
                                    Attempt(Proxies[1]))
            /\ UNCHANGED wpResult
    /\ UNCHANGED hasAuthHeader
    /\ UNCHANGED notWp

\* Lines 691-722: the fetch through a proxy settles
WpProxySettles(outcome) ==
    /\ wpAwaiting = "proxy"
    /\ IF OkOrClientError(outcome)
       THEN /\ wpResult' = [kind |-> "returned", value |-> outcome]
            /\ wpAwaiting' = "done"
            /\ wpAttempts' = Settled(wpAttempts, outcome)
            /\ UNCHANGED wpLastError
       ELSE LET lastError ==
                    CASE outcome = "AbortError" -> "Request timed out for proxy"
                      [] outcome \in Rejections -> outcome
                      [] OTHER -> "Proxy request failed with status"
            IN  /\ wpLastError' = lastError
                /\ IF Len(wpAttempts) - 1 < Len(Proxies)
                   THEN /\ wpAttempts' = Append(Settled(wpAttempts, outcome),
                                                Attempt(Proxies[Len(wpAttempts)]))
                        /\ UNCHANGED <<wpAwaiting, wpResult>>
                   ELSE /\ wpAttempts' = Settled(wpAttempts, outcome)
                        /\ wpAwaiting' = "done"
                        /\ wpResult' = [kind |-> "thrown", value |-> lastError]
    /\ UNCHANGED hasAuthHeader
    /\ UNCHANGED notWp

WpNext ==
    \/ WpCall
    \/ \E o \in FetchOutcomes : WpDirectSettles(o)
    \/ \E o \in FetchOutcomes : WpProxySettles(o)

---------------------------------------------------------------------------
(***************************************************************************)
(* fetchWithProxies (src/index.tsx:505-601)                                *)
(***************************************************************************)

NoFpResult == [kind |-> "pending", value |-> <<>>]
NoLastError == [message |-> <<>>, at |-> 0]

\* How a fetch of fetchWithProxies settles: a response by its status, or a
\* rejection by the name of the error
FpOutcomes == {"200", "404", "500", "AbortError", "TypeError"}

\* The proxies of lines 546-552, by host name
proxies == <<"corsproxy.io", "api.allorigins.win", "thingproxy.freeboard.io",
             "api.codetabs.com", "cors-proxy.fringe.zone">>

\* response.ok
ResponseOk(outcome) == outcome = "200"

\* error.message of a rejected fetch
RejectionMessage(outcome) == <<"message of", outcome>>

\* Lines 593-600: the message of the error thrown at the end
FpThrown(lastError) ==
    IF lastError = NoLastError
    THEN <<"baseErrorMessage">>
    ELSE <<"baseErrorMessage", "Last Error">> \o lastError.message

FpInit ==
    /\ fpAwaiting = "idle"
    /\ fpAttempts = <<>>
    /\ fpLastError = NoLastError
    /\ fpResult = NoFpResult

\* Lines 505-524: the call, up to the direct fetch
FpCall ==
    /\ fpAwaiting = "idle"
    /\ fpAwaiting' = "direct"
    /\ fpAttempts' = <<Attempt("direct")>>
    /\ UNCHANGED <<fpLastError, fpResult>>
    /\ UNCHANGED notFp

\* Lines 524-563: the direct fetch settles; a response that is not ok leaves
\* lastError alone
FpDirectSettles(outcome) ==
    /\ fpAwaiting = "direct"
    /\ IF ResponseOk(outcome)
       THEN /\ fpResult' = [kind |-> "returned", value |-> <<outcome>>]
            /\ fpAwaiting' = "done"
            /\ fpAttempts' = Settled(fpAttempts, outcome)
            /\ UNCHANGED fpLastError
       ELSE /\ fpLastError' = IF outcome \in Rejections
                              THEN [message |-> RejectionMessage(outcome),
                                    at |-> 1]
                              ELSE fpLastError
            /\ fpAwaiting' = "proxy"
            /\ fpAttempts' = Append(Settled(fpAttempts, outcome),
                                    Attempt(proxies[1]))
            /\ UNCHANGED fpResult
    /\ UNCHANGED notFp

\* FpProxySettles with lastError left alone by a response that is not ok
FpProxySettlesKeepsError(outcome) ==
    /\ fpAwaiting = "proxy"
    /\ IF ResponseOk(outcome)
       THEN /\ fpResult' = [kind |-> "returned", value |-> <<outcome>>]
            /\ fpAwaiting' = "done"
            /\ fpAttempts' = Settled(fpAttempts, outcome)
            /\ UNCHANGED fpLastError
       ELSE \E i \in {Len(fpAttempts) - 1} :
            \E lastError \in {
                CASE outcome = "AbortError" ->
                       [message |-> <<"Request timed out for proxy", proxies[i]>>,
                        at |-> i + 1]
                  [] outcome \in Rejections ->
                       [message |-> RejectionMessage(outcome), at |-> i + 1]
                  [] OTHER -> fpLastError} :
                /\ fpLastError' = lastError
                /\ IF i < Len(proxies)
                   THEN /\ fpAttempts' = Append(Settled(fpAttempts, outcome),
                                                Attempt(proxies[i + 1]))
                        /\ UNCHANGED <<fpAwaiting, fpResult>>
                   ELSE /\ fpAttempts' = Settled(fpAttempts, outcome)
                        /\ fpAwaiting' = "done"
                        /\ fpResult' = [kind |-> "thrown",
                                        value |-> FpThrown(lastError)]
    /\ UNCHANGED notFp

\* Lines 554-600: the fetch through proxy i (1-based) settles
FpProxySettles(outcome) ==
    /\ fpAwaiting = "proxy"
    /\ IF ResponseOk(outcome)
       THEN /\ fpResult' = [kind |-> "returned", value |-> <<outcome>>]
            /\ fpAwaiting' = "done"
            /\ fpAttempts' = Settled(fpAttempts, outcome)
            /\ UNCHANGED fpLastError
       ELSE \E i \in {Len(fpAttempts) - 1} :
            \E lastError \in {
                CASE outcome = "AbortError" ->
                       [message |-> <<"Request timed out for proxy", proxies[i]>>,
                        at |-> i + 1]
                  [] outcome \in Rejections ->
                       [message |-> RejectionMessage(outcome), at |-> i + 1]
                  [] OTHER ->
                       [message |-> <<"Proxy request failed with status",
                                      outcome, proxies[i]>>,
                        at |-> i + 1]} :
                /\ fpLastError' = lastError
                /\ IF i < Len(proxies)
                   THEN /\ fpAttempts' = Append(Settled(fpAttempts, outcome),
                                                Attempt(proxies[i + 1]))
                        /\ UNCHANGED <<fpAwaiting, fpResult>>
                   ELSE /\ fpAttempts' = Settled(fpAttempts, outcome)
                        /\ fpAwaiting' = "done"
                        /\ fpResult' = [kind |-> "thrown",
                                        value |-> FpThrown(lastError)]
    /\ UNCHANGED notFp

FpNext ==
    \/ FpCall
    \/ \E o \in FpOutcomes : FpDirectSettles(o)
    \/ \E o \in FpOutcomes : FpProxySettles(o)

\* The direct attempt, then every proxy of the list in its order
FpTargets == <<"direct">> \o proxies

\* The text that tells the failure of an attempt: the message of the error a
\* fetch rejected with (for a timeout, the text naming the proxy that timed
\* out), or the text naming the status of a response that is not ok
FailureText(k, outcome) ==
    CASE outcome \in Rejections /\ (k = 1 \/ outcome # "AbortError") ->
           RejectionMessage(outcome)
      [] outcome = "AbortError" ->
           <<"Request timed out for proxy", FpTargets[k]>>
      [] OTHER -> <<"Proxy request failed with status", outcome, FpTargets[k]>>

\* C21: fetchWithProxies raises only after the direct attempt and every proxy
\* of the fixed list have each been attempted and have failed, six attempts
\* in all and never more, and the error it raises embeds the message of the
\* last of these failures.
C21_RaisesAfterAllFailed ==
    /\ Len(fpAttempts) <= 1 + Len(proxies)
    /\ fpResult.kind = "thrown" =>
         /\ Len(fpAttempts) = 1 + Len(proxies)
         /\ \A k \in DOMAIN fpAttempts :
                /\ fpAttempts[k].to = FpTargets[k]
                /\ fpAttempts[k].outcome \in FpOutcomes
                /\ ~ResponseOk(fpAttempts[k].outcome)
         /\ fpLastError.at = Len(fpAttempts)
         /\ fpResult.value =
                <<"baseErrorMessage", "Last Error">>
                \o FailureText(Len(fpAttempts),
                               fpAttempts[Len(fpAttempts)].outcome)

C21_Witness ==
    /\ fpResult.kind = "thrown"
    /\ fpAttempts[1].outcome = "TypeError"
    /\ fpAttempts[Len(fpAttempts)].outcome = "500"

\* The direct attempt, then the proxies of fetchWordPressWithRetry in order
WpTargets == <<"direct">> \o Proxies

\* A response whose status is not 5xx
NotServerError(outcome) == outcome \in Responses /\ outcome # "500"

\* C22: both fetchers contact a proxy only after the direct attempt has
\* failed, take the proxies in the order of the list, return the first
\* winning response (an ok one; for an unauthenticated
\* fetchWordPressWithRetry, any response that is not 5xx) and make no
\* attempt after a winning response.
C22_FirstWinnerReturned ==
    /\ \A k \in DOMAIN fpAttempts :
           /\ fpAttempts[k].to = FpTargets[k]
           /\ k < Len(fpAttempts) => ~ResponseOk(fpAttempts[k].outcome)
           /\ ResponseOk(fpAttempts[k].outcome) =>
                  fpResult = [kind |-> "returned",
                              value |-> <<fpAttempts[k].outcome>>]
    /\ ~hasAuthHeader =>
           \A k \in DOMAIN wpAttempts :
               /\ wpAttempts[k].to = WpTargets[k]
               /\ k < Len(wpAttempts) => ~NotServerError(wpAttempts[k].outcome)
               /\ NotServerError(wpAttempts[k].outcome) =>
                      wpResult = [kind |-> "returned",
                                  value |-> wpAttempts[k].outcome]

---------------------------------------------------------------------------
(***************************************************************************)
(* App (src/index.tsx:1816-1841, 3598-3635, 4005-4547, 4653-4664): the     *)
(* items reducer, the handlers of the Generate, Retry, Stop and Save       *)
(* buttons, and the generateContent calls they start, several of which    *)
(* can be suspended at an await at the same time.                          *)
(***************************************************************************)

\* The generateContent calls alive at the same time in the model
MaxRuns == 2

UiIds == {"a", "b"}

\* The payloads of SET_ITEMS: the ids of the planned items
PlanLists == {<<"a", "b">>}

SetItems(ids) == [type |-> "SET_ITEMS", payload |-> ids]
UpdateStatus(id, status) == [type |-> "UPDATE_STATUS", id |-> id,
                             status |-> status]
SetContent(id, content) == [type |-> "SET_CONTENT", id |-> id,
                            content |-> content]

\* itemsReducer with a SET_CONTENT that leaves generatedContent alone
itemsReducerKeepsContent(state, action) ==
    CASE action.type = "SET_ITEMS" ->
           [k \in DOMAIN action.payload |->
               [id |-> action.payload[k], status |-> "idle",
                generatedContent |-> "null"]]
      [] action.type = "UPDATE_STATUS" ->
           [k \in DOMAIN state |->
               IF state[k].id = action.id
               THEN [state[k] EXCEPT !.status = action.status]
               ELSE state[k]]
      [] action.type = "SET_CONTENT" ->
           [k \in DOMAIN state |->
               IF state[k].id = action.id
               THEN [state[k] EXCEPT !.status = "done"]
               ELSE state[k]]

\* Lines 1816-1841 (SET_CRAWLED_CONTENT, which touches neither status nor
\* generatedContent, left out)
itemsReducer(state, action) ==
    CASE action.type = "SET_ITEMS" ->
           [k \in DOMAIN action.payload |->
               [id |-> action.payload[k], status |-> "idle",
                generatedContent |-> "null"]]
      [] action.type = "UPDATE_STATUS" ->
           [k \in DOMAIN state |->
               IF state[k].id = action.id
               THEN [state[k] EXCEPT !.status = action.status]
               ELSE state[k]]
      [] action.type = "SET_CONTENT" ->
           [k \in DOMAIN state |->
               IF state[k].id = action.id
               THEN [state[k] EXCEPT !.status = "done",
                                     !.generatedContent = action.content]
               ELSE state[k]]

\* The dispatches of one turn, in order
RECURSIVE Dispatch(_, _)
Dispatch(state, actions) ==
    IF actions = <<>> THEN state
    ELSE Dispatch(itemsReducer(state, Head(actions)), Tail(actions))

\* items.filter(item => selectedItems.has(item.id)), as ids
RECURSIVE Selected(_, _)
Selected(state, selectedItems) ==
    IF state = <<>> THEN <<>>
    ELSE (IF Head(state).id \in selectedItems THEN <<Head(state).id>>
          ELSE <<>>) \o Selected(Tail(state), selectedItems)

StatusOf(id) ==
    IF \E k \in DOMAIN uiItems : uiItems[k].id = id
    THEN uiItems[CHOOSE k \in DOMAIN uiItems : uiItems[k].id = id].status
    ELSE "none"

ContentOf(id) ==
    IF \E k \in DOMAIN uiItems : uiItems[k].id = id
    THEN uiItems[CHOOSE k \in DOMAIN uiItems : uiItems[k].id = id]
             .generatedContent
    ELSE "null"

\* Line 4009: the first item from position j on that is not stopped, 0 when
\* the loop runs out
RECURSIVE FirstNotStopped(_, _, _)
FirstNotStopped(ids, j, stopped) ==
    IF j > Len(ids) THEN 0
    ELSE IF ids[j] \in stopped THEN FirstNotStopped(ids, j + 1, stopped)
    ELSE j

\* Lines 4008-4167 and 4541-4546: the loop goes on from position j, up to
\* the first await of the next item that is not stopped, or to the end of
\* the call
LoopFrom(state, run, j, stopped) ==
    IF FirstNotStopped(run.ids, j, stopped) = 0
    THEN [items |-> state, run |-> {}, returned |-> TRUE]
    ELSE [items |-> Dispatch(state,
              <<UpdateStatus(run.ids[FirstNotStopped(run.ids, j, stopped)],
                             "generating")>>),
          run |-> {[ids |-> run.ids,
                    i |-> FirstNotStopped(run.ids, j, stopped),
                    at |-> "topic"]},
          returned |-> FALSE]

\* The call stays in the item, suspended at the next await
StayAt(state, run, at) ==
    [items |-> state, run |-> {[run EXCEPT !.at = at]}, returned |-> FALSE]

ItemOf(run) == run.ids[run.i]

\* The positions a generateContent call can be suspended at
Runs == {run \in [ids : {<<"a">>, <<"b">>, <<"a", "b">>}, i : 1..2,
                  at : {"topic", "writing", "references"}] :
            run.i <= Len(run.ids)}

\* The calls suspended in the pipeline of item id
RunsAt(id) == {run \in BagToSet(uiRuns) : ItemOf(run) = id}

\* The stops not yet met by the call they were meant for, once the call run
\* has moved to next: the stop of its item is over when it has left the item
StillPending(run, next) ==
    IF \E r \in next.run : ItemOf(r) = ItemOf(run) THEN uiStopPending
    ELSE uiStopPending \ {ItemOf(run)}

UiInit ==
    /\ uiItems = <<>>
    /\ uiStopRef = {}
    /\ uiIsGenerating = FALSE
    /\ uiRuns = EmptyBag
    /\ uiReview = "none"
    /\ uiStopPending = {}

\* A plan is made (lines 3338-3488): SET_ITEMS
Plan(ids) ==
    /\ uiItems' = Dispatch(uiItems, <<SetItems(ids)>>)
    /\ UNCHANGED <<uiStopRef, uiIsGenerating, uiRuns, uiReview,
                   uiStopPending>>
    /\ UNCHANGED notUi

\* handleGenerateSelected (3605-3613), behind the button of line 5103, and
\* generateContent up to its first await
UiGenerateSelected(selectedItems) ==
    /\ ~uiIsGenerating
    /\ BagCardinality(uiRuns) < MaxRuns
    /\ Selected(uiItems, selectedItems) # <<>>
    /\ \E next \in {LoopFrom(uiItems,
                             [ids |-> Selected(uiItems, selectedItems)],
                             1, {})} :
           /\ uiStopRef' = {}
           /\ uiItems' = next.items
           /\ uiRuns' = uiRuns (+) SetToBag(next.run)
           /\ uiIsGenerating' = ~next.returned
    /\ UNCHANGED <<uiReview, uiStopPending>>
    /\ UNCHANGED notUi

\* handleGenerateSingle (3598-3603), behind the Retry button of line 5156,
\* and generateContent up to its first await
UiRetry(id) ==
    /\ StatusOf(id) = "error"
    /\ BagCardinality(uiRuns) < MaxRuns
    /\ \E next \in {LoopFrom(uiItems, [ids |-> <<id>>], 1,
                             uiStopRef \ {id})} :
           /\ uiStopRef' = uiStopRef \ {id}
           /\ uiItems' = next.items
           /\ uiRuns' = uiRuns (+) SetToBag(next.run)
           /\ uiIsGenerating' = ~next.returned
    /\ UNCHANGED <<uiReview, uiStopPending>>
    /\ UNCHANGED notUi

\* handleStopGeneration(itemId) (3615-3621), behind the Stop button of 5150
UiStopItem(id) ==
    /\ StatusOf(id) = "generating"
    /\ uiStopRef' = uiStopRef \cup {id}
    /\ uiItems' = Dispatch(uiItems, <<UpdateStatus(id, "idle")>>)
    /\ uiStopPending' = uiStopPending \cup (IF RunsAt(id) # {} THEN {id} ELSE {})
    /\ UNCHANGED <<uiIsGenerating, uiRuns, uiReview>>
    /\ UNCHANGED notUi

\* handleStopGeneration() (3622-3634), behind the Stop All button of 5109
UiStopAll ==
    /\ uiIsGenerating
    /\ uiStopRef' = uiStopRef
                    \cup {id \in UiIds : StatusOf(id) = "generating"}
    /\ uiItems' = [k \in DOMAIN uiItems |->
                      IF uiItems[k].status = "generating"
                      THEN [uiItems[k] EXCEPT !.status = "idle"]
                      ELSE uiItems[k]]
    /\ uiIsGenerating' = FALSE
    /\ uiStopPending' =
           uiStopPending \cup {id \in UiIds : /\ StatusOf(id) = "generating"
                                               /\ RunsAt(id) # {}}
    /\ UNCHANGED <<uiRuns, uiReview>>
    /\ UNCHANGED notUi

\* The Review & Edit button of line 5153
OpenReview(id) ==
    /\ StatusOf(id) = "done"
    /\ uiReview = "none"
    /\ uiReview' = id
    /\ UNCHANGED <<uiItems, uiStopRef, uiIsGenerating, uiRuns,
                   uiStopPending>>
    /\ UNCHANGED notUi

\* handleSaveChanges (4653-4664)
SaveChanges ==
    /\ uiReview # "none"
    /\ ContentOf(uiReview) # "null"
    /\ uiItems' = Dispatch(uiItems, <<SetContent(uiReview, "newContent")>>)
    /\ uiReview' = "none"
    /\ UNCHANGED <<uiStopRef, uiIsGenerating, uiRuns, uiStopPending>>
    /\ UNCHANGED notUi

\* Lines 4167-4181: the topic analysis settles; a stopped item breaks out
\* of the loop over the items
UiTopicDone(run) ==
    /\ BagIn(run, uiRuns)
    /\ run.at = "topic"
    /\ \E next \in {
           IF ItemOf(run) \in uiStopRef
           THEN LoopFrom(uiItems, run, Len(run.ids) + 1,
                         uiStopRef)
           ELSE StayAt(Dispatch(uiItems,
                           <<UpdateStatus(ItemOf(run), "generating")>>),
                       run, "writing")} :
           /\ uiItems' = next.items
           /\ uiRuns' = (uiRuns (-) SetToBag({run})) (+) SetToBag(next.run)
           /\ uiIsGenerating' = IF next.returned THEN FALSE
                                ELSE uiIsGenerating
           /\ uiStopPending' = StillPending(run, next)
    /\ UNCHANGED <<uiStopRef, uiReview>>
    /\ UNCHANGED notUi

\* Lines 4182-4274: the outline, the sections and the FAQs are written; a
\* stopped item is set idle and breaks out of the loop over the items
UiWritingDone(run) ==
    /\ BagIn(run, uiRuns)
    /\ run.at = "writing"
    /\ \E next \in {
           IF ItemOf(run) \in uiStopRef
           THEN LoopFrom(Dispatch(uiItems,
                             <<UpdateStatus(ItemOf(run), "idle")>>),
                         run, Len(run.ids) + 1, uiStopRef)
           ELSE StayAt(Dispatch(uiItems,
                           <<UpdateStatus(ItemOf(run), "generating")>>),
                       run, "references")} :
           /\ uiItems' = next.items
           /\ uiRuns' = (uiRuns (-) SetToBag({run})) (+) SetToBag(next.run)
           /\ uiIsGenerating' = IF next.returned THEN FALSE
                                ELSE uiIsGenerating
           /\ uiStopPending' = StillPending(run, next)
    /\ UNCHANGED <<uiStopRef, uiReview>>
    /\ UNCHANGED notUi

\* Lines 4275-4546 for an article without images: the references are found;
\* a stopped item is set idle and the loop continues with the next item,
\* otherwise the content is finalized: SET_CONTENT, and for a content that
\* is too short UPDATE_STATUS error after it; then the next item
UiReferencesDone(run, short) ==
    /\ BagIn(run, uiRuns)
    /\ run.at = "references"
    /\ \E next \in {
           LoopFrom(Dispatch(uiItems,
                        IF ItemOf(run) \in uiStopRef
                        THEN <<UpdateStatus(ItemOf(run), "idle")>>
                        ELSE IF short
                        THEN <<UpdateStatus(ItemOf(run), "generating"),
                               SetContent(ItemOf(run), "errorContent"),
                               UpdateStatus(ItemOf(run), "error")>>
                        ELSE <<UpdateStatus(ItemOf(run), "generating"),
                               SetContent(ItemOf(run),
                                          "processedContent")>>),
                    run, run.i + 1, uiStopRef)} :
           /\ uiItems' = next.items
           /\ uiRuns' = (uiRuns (-) SetToBag({run})) (+) SetToBag(next.run)
           /\ uiIsGenerating' = IF next.returned THEN FALSE
                                ELSE uiIsGenerating
           /\ uiStopPending' = StillPending(run, next)
    /\ UNCHANGED <<uiStopRef, uiReview>>
    /\ UNCHANGED notUi

\* Lines 4517-4546: a stage throws; the catch block sets the item to error
\* and the loop goes on with the next item
UiStageFails(run) ==
    /\ BagIn(run, uiRuns)
    /\ \E next \in {
           LoopFrom(Dispatch(uiItems,
                        <<UpdateStatus(ItemOf(run), "error")>>),
                    run, run.i + 1, uiStopRef)} :
           /\ uiItems' = next.items
           /\ uiRuns' = (uiRuns (-) SetToBag({run})) (+) SetToBag(next.run)
           /\ uiIsGenerating' = IF next.returned THEN FALSE
                                ELSE uiIsGenerating
           /\ uiStopPending' = StillPending(run, next)
    /\ UNCHANGED <<uiStopRef, uiReview>>
    /\ UNCHANGED notUi

UiNext ==
    \/ \E ids \in PlanLists : Plan(ids)
    \/ \E selectedItems \in SUBSET UiIds : UiGenerateSelected(selectedItems)
    \/ \E id \in UiIds : UiRetry(id)
    \/ \E id \in UiIds : UiStopItem(id)
    \/ UiStopAll
    \/ \E id \in UiIds : OpenReview(id)
    \/ SaveChanges
    \/ \E run \in Runs : UiTopicDone(run)
    \/ \E run \in Runs : UiWritingDone(run)
    \/ \E run \in Runs, short \in BOOLEAN : UiReferencesDone(run, short)
    \/ \E run \in Runs : UiStageFails(run)

\* The item is being generated: it shows as generating and a generateContent
\* call is suspended in its pipeline
BeingGenerated(id) ==
    /\ StatusOf(id) = "generating"
    /\ \E run \in BagToSet(uiRuns) : ItemOf(run) = id

\* C23: under any interleaving of the Generate, Retry and Stop buttons with
\* running generation, at most one item is being generated at any time.
C23_OneItemAtATime ==
    Cardinality({id \in UiIds : BeingGenerated(id)}) <= 1

\* C26: an item whose status is done has generated content, and the items
\* of a fresh plan are all idle and without content.
C26_DoneHasContent ==
    /\ [](\A k \in DOMAIN uiItems :
              uiItems[k].status = "done"
                  => uiItems[k].generatedContent # "null")
    /\ [][(\E ids \in PlanLists : Plan(ids)) =>
              \A k \in DOMAIN uiItems' :
                  /\ uiItems'[k].status = "idle"
                  /\ uiItems'[k].generatedContent = "null"]_vars

C26_Witness ==
    /\ \E k \in DOMAIN uiItems : /\ uiItems[k].status = "done"
                                 /\ uiItems[k].generatedContent = "newContent"
    /\ \E k \in DOMAIN uiItems : /\ uiItems[k].status = "error"
                                 /\ uiItems[k].generatedContent = "errorContent"
    /\ uiRuns # EmptyBag

\* Exactly one call is suspended in the pipeline of item id
OneRunAt(id) ==
    /\ Cardinality(RunsAt(id)) = 1
    /\ \A run \in RunsAt(id) : CopiesIn(run, uiRuns) = 1

\* C38: a stop flag set for an item while a call was generating it stays in
\* effect until that call has met it: whatever generation is started in
\* between, the next step of that call leaves the item's pipeline and
\* attaches no content to the item.
C38_StopOutlivesNewGeneration ==
    [][\A id \in uiStopPending :
           (OneRunAt(id) /\ \E run \in RunsAt(id) : ~BagIn(run, uiRuns')) =>
               /\ id \in uiStopRef
               /\ \A run \in BagToSet(uiRuns') : ItemOf(run) # id
               /\ ContentOf(id)' = ContentOf(id)]_vars

---------------------------------------------------------------------------
(***************************************************************************)
(* The bulk handlers built on processConcurrently:                         *)
(* BulkPublishModal.handleStartPublishing (src/index.tsx:2639-2658) and    *)
(* handleAnalyzeSelectedPages (src/index.tsx:3242-3304)                    *)
(***************************************************************************)

BulkOps == {"publish", "analyze"}

\* The concurrency argument the handler passes (lines 2653 and 3290)
BulkConcurrency(op) == IF op = "publish" THEN 5 ELSE 3

\* The status the processor shows for an item it has begun (lines 2646, 3251)
Working(op) == IF op = "publish" THEN "publishing" ELSE "analyzing"

\* The status the processor records for an item (lines 2648, 3281 and 3285)
Recorded(op, ok) ==
    IF ~ok THEN "error" ELSE IF op = "publish" THEN "success" ELSE "analyzed"

\* The statuses after processor invocations began for the items of `begun`
Begin(status, begun, op) ==
    [i \in DOMAIN status |->
        IF \E k \in DOMAIN begun : begun[k] = i THEN Working(op) ELSE status[i]]

\* What follows `await processConcurrently(...)` in the handler once the
\* returned promise has settled: lines 2656-2657, and 3296-3302 where the
\* call is inside try/catch/finally
HandlerAfter(op, r) ==
    IF r = "pending" THEN [handler |-> "awaiting", busy |-> TRUE]
    ELSE IF r = "rejected" /\ op = "publish"
    THEN [handler |-> "crashed", busy |-> TRUE]
    ELSE [handler |-> "returned", busy |-> FALSE]

BulkInit ==
    /\ bulkOp \in BulkOps
    /\ \E n \in 0..MaxItems : items = [i \in 1..n |-> i]
    /\ falsy = {}
    /\ concurrency = BulkConcurrency(bulkOp)
    /\ hasStop = (bulkOp = "analyze")
    /\ stopRef = FALSE
    /\ queue = items
    /\ completed = 0
    /\ launched = FALSE
    /\ wstate = [w \in Workers |-> "idle"]
    /\ witem = [w \in Workers |-> 0]
    /\ runner = "pending"
    /\ started = <<>>
    /\ reports = <<>>
    /\ stopSeen = FALSE
    /\ startedAfterStop = FALSE
    /\ startedAfterSettle = FALSE
    /\ settledCount = 0
    /\ finishedAfterStop = FALSE
    /\ bulkStatus = [i \in DOMAIN items |->
                        IF bulkOp = "publish" THEN "queued" ELSE "idle"]
    /\ bulkFailed = {}
    /\ bulkHandler = "idle"
    /\ bulkBusy = FALSE

\* The handler is called: lines 2639-2655 and 3238-3293, up to the await of
\* processConcurrently, whose workers each take a first item
BulkStart ==
    /\ bulkHandler = "idle"
    /\ ~launched
    /\ \E l \in {LaunchWorkers(1, [queue |-> queue, wstate |-> wstate,
                                   witem |-> witem, started |-> started,
                                   saw |-> FALSE])} :
           /\ queue' = l.queue
           /\ wstate' = l.wstate
           /\ witem' = l.witem
           /\ started' = l.started
           /\ stopSeen' = l.saw
           /\ runner' = RunnerAfter(l.wstate, runner)
           /\ bulkStatus' = Begin(bulkStatus, l.started, bulkOp)
           /\ bulkHandler' =
                  HandlerAfter(bulkOp, RunnerAfter(l.wstate, runner)).handler
           /\ bulkBusy' =
                  HandlerAfter(bulkOp, RunnerAfter(l.wstate, runner)).busy
    /\ launched' = TRUE
    /\ UNCHANGED <<items, falsy, concurrency, hasStop, stopRef, completed,
                   reports, startedAfterStop, startedAfterSettle, settledCount,
                   finishedAfterStop, bulkOp, bulkFailed>>
    /\ UNCHANGED notBulk

\* A processor that lets the failure out
ProcessorRethrows(op, ok) == IF ok THEN "fulfilled" ELSE "rejected"

\* How the processor invocation settles when the work on its item ends well
\* (ok) or not.  publishItem returns a result, success or not, and throws
\* nothing (its awaits are inside try/catch, lines 4563-4623), and the
\* analysis runs inside the try of lines 3253-3286, whose catch records the
\* error: the invocation fulfils either way.
Processor(op, ok) == "fulfilled"

\* The work on the item of worker w ends, well (ok) or not, and the
\* processor records the item's status (lines 2648, 3281, 3285).  The
\* worker counts the item (lines 814-816) and goes round its loop again; a
\* rejected invocation would end the worker and reject Promise.all
\* (line 822).
BulkItemSettles(w, ok) ==
    /\ launched
    /\ wstate[w] = "awaiting"
    /\ IF Processor(bulkOp, ok) = "fulfilled"
       THEN \E r \in {RunLoop(queue)} :
            \E ws \in {[wstate EXCEPT ![w] = r.to]} :
                /\ completed' = completed + 1
                /\ reports' = IF bulkOp = "analyze"
                              THEN Append(reports, <<completed + 1, total>>)
                              ELSE reports
                /\ queue' = r.queue
                /\ wstate' = ws
                /\ witem' = [witem EXCEPT ![w] = r.item]
                /\ started' = IF r.to = "awaiting"
                              THEN Append(started, r.item) ELSE started
                /\ stopSeen' = (stopSeen \/ r.saw)
                /\ startedAfterStop' =
                       (startedAfterStop \/ (stopSeen /\ r.to = "awaiting"))
                /\ startedAfterSettle' =
                       (startedAfterSettle
                        \/ (runner # "pending" /\ r.to = "awaiting"))
                /\ runner' = RunnerAfter(ws, runner)
                /\ bulkStatus' =
                       Begin([bulkStatus EXCEPT
                                  ![witem[w]] = Recorded(bulkOp, ok)],
                             IF r.to = "awaiting" THEN <<r.item>> ELSE <<>>,
                             bulkOp)
                /\ bulkHandler' =
                       HandlerAfter(bulkOp, RunnerAfter(ws, runner)).handler
                /\ bulkBusy' =
                       HandlerAfter(bulkOp, RunnerAfter(ws, runner)).busy
       ELSE \E ws \in {[wstate EXCEPT ![w] = "rejected"]} :
                /\ wstate' = ws
                /\ witem' = [witem EXCEPT ![w] = 0]
                /\ runner' = RunnerAfter(ws, runner)
                /\ bulkHandler' =
                       HandlerAfter(bulkOp, RunnerAfter(ws, runner)).handler
                /\ bulkBusy' =
                       HandlerAfter(bulkOp, RunnerAfter(ws, runner)).busy
                /\ UNCHANGED <<completed, reports, queue, started, stopSeen,
                               startedAfterStop, startedAfterSettle,
                               bulkStatus>>
    /\ settledCount' = settledCount + 1
    /\ finishedAfterStop' = (finishedAfterStop \/ stopSeen)
    /\ bulkFailed' = IF ok THEN bulkFailed ELSE bulkFailed \cup {witem[w]}
    /\ UNCHANGED <<items, falsy, concurrency, hasStop, stopRef, launched,
                   bulkOp>>
    /\ UNCHANGED notBulk

\* The Stop button of the health analysis: stopHealthAnalysisRef.current = true
BulkStop ==
    /\ bulkOp = "analyze"
    /\ bulkBusy
    /\ ~stopRef
    /\ stopRef' = TRUE
    /\ UNCHANGED <<items, falsy, concurrency, hasStop, queue, completed, launched,
                   wstate, witem, runner, started, reports, stopSeen,
                   startedAfterStop, startedAfterSettle, settledCount,
                   finishedAfterStop, bulkOp, bulkStatus, bulkFailed,
                   bulkHandler, bulkBusy>>
    /\ UNCHANGED notBulk

BulkNext ==
    \/ BulkStart
    \/ \E w \in Workers, ok \in BOOLEAN : BulkItemSettles(w, ok)
    \/ BulkStop

\* C25: in bulk publishing and in the bulk health analysis, an item whose
\* processing failed shows the error status, neither processConcurrently
\* nor the handler is ever ended by a failure, and unless the user stops
\* the batch every item has been processed when the handler returns.
C25_FailureRecordedBatchGoesOn ==
    /\ \A i \in bulkFailed : bulkStatus[i] = "error"
    /\ runner # "rejected"
    /\ bulkHandler # "crashed"
    /\ \A w \in DOMAIN wstate : wstate[w] # "rejected"
    /\ (InFlight = {} /\ launched) => bulkHandler = "returned"
    /\ (bulkHandler = "returned" /\ ~stopSeen) =>
           \A i \in DOMAIN items :
               bulkStatus[i] = Recorded(bulkOp, i \notin bulkFailed)

\* C25 witness: an analysis of
\* four pages by three workers in which the first page failed and the page
\* taken from the queue after that failure was analyzed.
C25_Witness ==
    /\ bulkOp = "analyze"
    /\ Len(items) = 4
    /\ bulkHandler = "returned"
    /\ ~stopSeen
    /\ 1 \in bulkFailed
    /\ bulkStatus[4] = "analyzed"

---------------------------------------------------------------------------
(***************************************************************************)
(* enforceUniqueVideoEmbeds (src/index.tsx:1254-1290).  The content is a   *)
(* sequence of tokens as before; a video identifier is a token that is     *)
(* part of no other token.                                                 *)
(***************************************************************************)

IFO == "<iframe"
IFC == "</iframe>"
SRCQ == "src=\"https://www.youtube.com/embed/"
TITLEQ == "title=\""
QRY == "?rel=0"

MaxEmbeds == 3
MaxVideos == 3

NoIframe == [ok |-> FALSE, id |-> <<>>, end |-> 0]

\* The end of the run [^"?&]+ that starts at index j: the first index from j
\* on that holds a quote or a query string, at most g
RECURSIVE IdEnd(_, _, _)
IdEnd(s, j, g) ==
    IF j >= g \/ s[j] \in {Q, QRY} THEN j ELSE IdEnd(s, j + 1, g)

\* /<iframe[^>]+src="https:\/\/www\.youtube\.com\/embed\/([^"?&]+)[^>]*><\/iframe>/
\* tried at index i of s.  Nothing up to the closing bracket is a '>', so the
\* bracket is the first one after i; [^>]+ is greedy and takes the last src
\* attribute before it.
MatchIframe(s, i) ==
    IF At(s, i) # IFO THEN NoIframe
    ELSE LET g == IndexOfTok(s, GT, i + 1)
             srcs == {j \in (i + 2)..(g - 1) : s[j] = SRCQ /\ IdEnd(s, j + 1, g) > j + 1}
         IN  IF g # 0 /\ At(s, g + 1) = IFC /\ srcs # {}
             THEN LET j == CHOOSE x \in srcs : \A y \in srcs : y <= x
                  IN  [ok |-> TRUE,
                       id |-> SubSeq(s, j + 1, IdEnd(s, j + 1, g) - 1),
                       end |-> g + 1]
             ELSE NoIframe

\* [...content.matchAll(iframeRegex)]: index (at), end and m[1] (id) of each
RECURSIVE IframeMatches(_, _)
IframeMatches(s, i) ==
    IF i > Len(s) THEN <<>>
    ELSE LET m == MatchIframe(s, i)
         IN  IF m.ok
             THEN <<[at |-> i, end |-> m.end, id |-> m.id]>> \o IframeMatches(s, m.end + 1)
             ELSE IframeMatches(s, i + 1)

\* secondMatch[0].replace(duplicateId, secondVideo.videoId): a string pattern
\* replaces its first occurrence in the tag
CorrectedIframe(tag, duplicateId, videoId) == ReplaceFirst(tag, duplicateId, videoId)

enforceUniqueVideoEmbeds(content, youtubeVideos) ==
    IF Len(youtubeVideos) < 2 THEN content
    ELSE LET matches == IframeMatches(content, 1)
         IN  IF Len(matches) < 2 THEN content
             ELSE IF \A k \in 1..Len(matches) : matches[k].id = matches[1].id
             THEN LET duplicateId == matches[1].id
                      secondVideo == youtubeVideos[2]
                      secondMatch == matches[2]
                  IN  IF secondVideo.videoId # <<>> /\ secondVideo.videoId # duplicateId
                      THEN SubSeq(content, 1, secondMatch.at - 1)
                           \o CorrectedIframe(SubSeq(content, secondMatch.at, secondMatch.end),
                                              duplicateId, secondVideo.videoId)
                           \o SubSeq(content, secondMatch.end + 1, Len(content))
                      ELSE content
             ELSE content

\* ---- The inputs of enforceUniqueVideoEmbeds

Iframe(before, id, after) ==
    <<IFO, WS>> \o before \o <<SRCQ>> \o id \o after \o <<Q, GT, IFC>>

EmbedA       == Iframe(<<>>, <<"vidA">>, <<>>)
EmbedB       == Iframe(<<>>, <<"vidB">>, <<>>)
EmbedAQuery  == Iframe(<<>>, <<"vidA">>, <<QRY>>)
\* The shape of the pipeline's own embeds (line 4244): the title follows src
EmbedATitleAfter  == Iframe(<<>>, <<"vidA">>, <<Q, WS, TITLEQ, "Watch", WS, "vidA">>)
\* An embed whose title attribute precedes src and quotes the identifier
EmbedATitleBefore == Iframe(<<TITLEQ, "vidA", Q, WS>>, <<"vidA">>, <<>>)
EmbedUnclosed == <<IFO, WS, SRCQ, "vidA", Q, GT>>
VideoSegments == {EmbedA, EmbedB, EmbedAQuery, EmbedATitleAfter, EmbedATitleBefore,
                  EmbedUnclosed, <<"Watch">>}
VideoContents == {Concat(ss) : ss \in SeqsUpTo(VideoSegments, MaxEmbeds)}

\* youtubeVideos: the selected videos; a missing videoId is the empty string
VideoLists == SeqsUpTo([videoId : {<<"vidA">>, <<"vidB">>, <<>>}], MaxVideos)

VidInit ==
    /\ vcontent \in VideoContents
    /\ vvideos \in VideoLists
    /\ vout = <<>>
    /\ vpc = "start"

EnforceUniqueVideoEmbeds ==
    /\ vpc = "start"
    /\ vout' = enforceUniqueVideoEmbeds(vcontent, vvideos)
    /\ vpc' = "returned"
    /\ UNCHANGED <<vcontent, vvideos>>
    /\ UNCHANGED notVid

VidNext == EnforceUniqueVideoEmbeds

\* The identifiers of the video iframes of s, in order
EmbedIds(s) == [k \in 1..Len(IframeMatches(s, 1)) |-> IframeMatches(s, 1)[k].id]

\* The claim's case: two or more embeds, all with one identifier, and a second
\* selected video with another identifier
C33_Duplicated ==
    /\ Len(EmbedIds(vcontent)) >= 2
    /\ \A k \in 1..Len(EmbedIds(vcontent)) : EmbedIds(vcontent)[k] = EmbedIds(vcontent)[1]
    /\ Len(vvideos) >= 2
    /\ vvideos[2].videoId # <<>>
    /\ vvideos[2].videoId # EmbedIds(vcontent)[1]

\* C33: in the claim's case the second iframe refers to the alternate
\* identifier afterwards, every other embed and the text up to the end of the
\* first iframe are as they were, and the embeds are no longer all the same;
\* in every other case the content is returned unchanged.
C33_SecondEmbedRewritten ==
    vpc = "returned" =>
        IF C33_Duplicated
        THEN /\ EmbedIds(vout) = [EmbedIds(vcontent) EXCEPT ![2] = vvideos[2].videoId]
             /\ LET first == IframeMatches(vcontent, 1)[1]
                IN  SubSeq(vout, 1, first.end) = SubSeq(vcontent, 1, first.end)
             /\ \E k \in 1..Len(EmbedIds(vout)) : EmbedIds(vout)[k] # EmbedIds(vout)[1]
        ELSE vout = vcontent

---------------------------------------------------------------------------
(***************************************************************************)
(* The research stages of generateContent over one session                 *)
(* (src/index.tsx:4109-4193, fetchSerperKeywords 3751-3874): several       *)
(* generations, one after the other, each for one title, all within the    *)
(* TTL of apiCache, so that a value once set is returned by get.           *)
(***************************************************************************)

MaxGenerations == 3
Titles == {"solar panel roi", "heat pumps"}

\* The external calls of the research stages
SerperKeywordsCall == "serper search (keywords)"
SerpCall == "serper search (SERP)"
VideosCall == "serper videos"
SemanticKeywordsCall == "semantic_keyword_generator"
OutlineCall == "content_meta_and_outline"

\* `serper-keywords-${primaryKeyword}`, `serp-${item.title}`, `sk-${item.title}`
CacheKey(prefix, title) == <<prefix, title>>

SesRunning == sesHist[Len(sesHist)]

\* The history after the running generation made the calls cs
SesCalled(cs) == [sesHist EXCEPT ![Len(sesHist)].calls = @ \cup cs]

\* The history after the running generation made the calls cs, which failed
SesFailed(cs) ==
    [sesHist EXCEPT ![Len(sesHist)].calls = @ \cup cs, ![Len(sesHist)].failed = @ \cup cs]

\* ... and ended with result r
SesEnded(h, r) == [h EXCEPT ![Len(h)].result = r]

SesInit ==
    /\ sesSerperValid \in BOOLEAN
    /\ sesCache = {}
    /\ sesHist = <<>>
    /\ sesPc = "idle"

\* generateContent is called for an item with the given title; without a
\* valid Serper key the two Serper stages are passed over (line 4109)
SesGenerate(title) ==
    /\ sesPc \in {"idle", "returned"}
    /\ Len(sesHist) < MaxGenerations
    /\ sesHist' = Append(sesHist, [title |-> title, calls |-> {}, failed |-> {},
                                    result |-> "running"])
    /\ sesPc' = IF sesSerperValid THEN "keywords" ELSE "semantic"
    /\ UNCHANGED <<sesSerperValid, sesCache>>
    /\ UNCHANGED notSes

\* keywordMetrics = await fetchSerperKeywords(item.title): a cached list is
\* returned as it is; otherwise the search is made, and cached when it
\* succeeded (a failure is caught and gives [])
SesKeywords(ok) ==
    /\ sesPc = "keywords"
    /\ LET key == CacheKey("serper-keywords", SesRunning.title)
       IN  IF key \in sesCache
           THEN UNCHANGED <<sesCache, sesHist>>
           ELSE IF ok
           THEN /\ sesHist' = SesCalled({SerperKeywordsCall})
                /\ sesCache' = sesCache \cup {key}
           ELSE /\ sesHist' = SesFailed({SerperKeywordsCall})
                /\ sesCache' = sesCache
    /\ sesPc' = "serp"
    /\ UNCHANGED sesSerperValid
    /\ UNCHANGED notSes

\* Lines 4118-4160: the SERP data, the videos and the questions come from the
\* cache, or from a search and the video searches after it; a failure of the
\* search is caught and nothing is cached
SesSerp(ok) ==
    /\ sesPc = "serp"
    /\ LET key == CacheKey("serp", SesRunning.title)
       IN  IF key \in sesCache
           THEN UNCHANGED <<sesCache, sesHist>>
           ELSE IF ok
           THEN /\ sesHist' = SesCalled({SerpCall, VideosCall})
                /\ sesCache' = sesCache \cup {key}
           ELSE /\ sesHist' = SesFailed({SerpCall})
                /\ sesCache' = sesCache
    /\ sesPc' = "semantic"
    /\ UNCHANGED sesSerperValid
    /\ UNCHANGED notSes

\* Lines 4164-4172: the semantic keywords; a failure of callAI is thrown to
\* the catch of the item (status error)
SesSemantic(ok) ==
    /\ sesPc = "semantic"
    /\ LET key == CacheKey("sk", SesRunning.title)
       IN  IF key \in sesCache
           THEN /\ UNCHANGED <<sesCache, sesHist>>
                /\ sesPc' = "outline"
           ELSE IF ok
           THEN /\ sesHist' = SesCalled({SemanticKeywordsCall})
                /\ sesCache' = sesCache \cup {key}
                /\ sesPc' = "outline"
           ELSE /\ sesHist' = SesEnded(SesFailed({SemanticKeywordsCall}), "error")
                /\ sesCache' = sesCache
                /\ sesPc' = "returned"
    /\ UNCHANGED sesSerperValid
    /\ UNCHANGED notSes

\* Lines 4181-4193: the outline call, which consults no cache, then the
\* rest of the pipeline (which uses apiCache no more) up to the item's result
SesOutline(ok) ==
    /\ sesPc = "outline"
    /\ sesHist' = IF ok THEN SesEnded(SesCalled({OutlineCall}), "done")
                  ELSE SesEnded(SesFailed({OutlineCall}), "error")
    /\ sesCache' = sesCache
    /\ sesPc' = "returned"
    /\ UNCHANGED sesSerperValid
    /\ UNCHANGED notSes

SesNext ==
    \/ \E title \in Titles : SesGenerate(title)
    \/ \E ok \in BOOLEAN : SesKeywords(ok)
    \/ \E ok \in BOOLEAN : SesSerp(ok)
    \/ \E ok \in BOOLEAN : SesSemantic(ok)
    \/ \E ok \in BOOLEAN : SesOutline(ok)

\* C34: when a generation for a title made the keyword-research, SERP and
\* outline calls and none of its calls failed, a later generation for the
\* same title makes none of these calls: it takes their results from the
\* cache.
C34_SecondGenerationFromCache ==
    \A g1, g2 \in DOMAIN sesHist :
        ( /\ g1 < g2
          /\ sesHist[g1].title = sesHist[g2].title
          /\ sesHist[g1].result = "done"
          /\ sesHist[g1].failed = {}
          /\ {SerperKeywordsCall, SerpCall, OutlineCall} \subseteq sesHist[g1].calls )
        => sesHist[g2].calls \cap {SerperKeywordsCall, SerpCall, OutlineCall} = {}

---------------------------------------------------------------------------
(***************************************************************************)
(* Specifications: one per component.                                      *)
(***************************************************************************)

BatchIdle ==
    /\ items = <<>> /\ falsy = {} /\ concurrency = 0 /\ hasStop = FALSE
    /\ stopRef = FALSE /\ queue = <<>> /\ completed = 0 /\ launched = FALSE
    /\ wstate = <<>> /\ witem = <<>> /\ runner = "pending" /\ started = <<>>
    /\ reports = <<>> /\ stopSeen = FALSE /\ startedAfterStop = FALSE
    /\ startedAfterSettle = FALSE /\ settledCount = 0 /\ finishedAfterStop = FALSE

RetryIdle ==
    /\ maxRetries = 0 /\ initialDelay = 0 /\ attempt = 0 /\ rpc = "idle"
    /\ calls = 0 /\ lastErr = NoError /\ thrown = NoError /\ delay = 0
    /\ waited = 0 /\ nwaits = 0 /\ allRetriable = TRUE

CacheIdle ==
    /\ cache = <<>> /\ now = 0 /\ nticks = 0 /\ setLog = <<>> /\ lastGet = NoGet

LinksIdle ==
    /\ linput = <<>> /\ lpages = <<>> /\ lmin = 0 /\ lcontent = <<>>
    /\ lprev = <<>> /\ ltrace = <<>>

JsonIdle ==
    /\ jtext = <<>> /\ jdoc = <<>> /\ jkind = "plain" /\ jpc = "start"
    /\ jres = NoResult

GenIdle ==
    /\ gtype = "standard" /\ gpages = <<>> /\ gserper = FALSE
    /\ gstatus = "idle" /\ gpc = "idle" /\ gstop = FALSE /\ gfinal = <<>>
    /\ gimages = 0 /\ gi = 0 /\ gout = NoContent
    /\ ggate = NoGate

RunIdle ==
    /\ itemsToGenerate = 0 /\ itemType = <<>> /\ hadContent = FALSE
    /\ serperValid = FALSE /\ itemStatus = <<>> /\ itemContent = <<>>
    /\ stopGenerationRef = {} /\ itemIndex = 0 /\ awaiting = "idle"
    /\ loopIndex = 0 /\ published = <<>> /\ generatedCount = 0
    /\ generationProgress = NoProgress /\ isGenerating = FALSE
    /\ failed = <<>> /\ stoppedWhileGenerating = {}

BulkIdle ==
    /\ bulkOp = "none" /\ bulkStatus = <<>> /\ bulkFailed = {}
    /\ bulkHandler = "off" /\ bulkBusy = FALSE

UiIdle ==
    /\ uiItems = <<>> /\ uiStopRef = {} /\ uiIsGenerating = FALSE
    /\ uiRuns = EmptyBag /\ uiReview = "off" /\ uiStopPending = {}

FpIdle ==
    /\ fpAwaiting = "off" /\ fpAttempts = <<>> /\ fpLastError = NoLastError
    /\ fpResult = NoFpResult

VidIdle ==
    /\ vcontent = <<>> /\ vvideos = <<>> /\ vout = <<>> /\ vpc = "off"

SesIdle ==
    /\ sesSerperValid = FALSE /\ sesCache = {} /\ sesHist = <<>> /\ sesPc = "off"

WpOff ==
    /\ hasAuthHeader = FALSE /\ wpAwaiting = "off" /\ wpAttempts = <<>>
    /\ wpLastError = "null" /\ wpResult = NoWpResult

WpIdle ==
    /\ hasAuthHeader = FALSE /\ wpAwaiting = "idle" /\ wpAttempts = <<>>
    /\ wpLastError = "null" /\ wpResult = NoWpResult

InitBatch == BatchInit /\ RetryIdle /\ CacheIdle /\ LinksIdle /\ GenIdle /\ JsonIdle
            /\ RunIdle /\ WpIdle /\ FpIdle /\ UiIdle /\ BulkIdle /\ VidIdle /\ SesIdle
NextBatch == BatchNext
SpecBatch == InitBatch /\ [][NextBatch]_vars

\* The run is started, and a processor invocation that stays pending is
\* eventually fulfilled
SpecBatchLive ==
    /\ InitBatch
    /\ [][NextBatch]_vars
    /\ WF_vars(Launch)
    /\ \A w \in 1..MaxConc : WF_vars(w \in Workers /\ SettleOk(w))

InitRetry == RetryInit /\ BatchIdle /\ CacheIdle /\ LinksIdle /\ GenIdle /\ JsonIdle
            /\ RunIdle /\ WpIdle /\ FpIdle /\ UiIdle /\ BulkIdle /\ VidIdle /\ SesIdle
NextRetry == RetryNext
SpecRetry == InitRetry /\ [][NextRetry]_vars

InitCache == CacheInit /\ BatchIdle /\ RetryIdle /\ LinksIdle /\ GenIdle /\ JsonIdle
            /\ RunIdle /\ WpIdle /\ FpIdle /\ UiIdle /\ BulkIdle /\ VidIdle /\ SesIdle
NextCache == CacheNext
SpecCache == InitCache /\ [][NextCache]_vars

InitLinks == LinksInit /\ BatchIdle /\ RetryIdle /\ CacheIdle /\ GenIdle /\ JsonIdle
            /\ RunIdle /\ WpIdle /\ FpIdle /\ UiIdle /\ BulkIdle /\ VidIdle /\ SesIdle
NextLinks == LinksNext
SpecLinks == InitLinks /\ [][NextLinks]_vars

InitGen == GenInit /\ BatchIdle /\ RetryIdle /\ CacheIdle /\ LinksIdle /\ JsonIdle
            /\ RunIdle /\ WpIdle /\ FpIdle /\ UiIdle /\ BulkIdle /\ VidIdle /\ SesIdle
NextGen == GenNext
SpecGen == InitGen /\ [][NextGen]_vars

InitJson == JsonInit /\ BatchIdle /\ RetryIdle /\ CacheIdle /\ LinksIdle /\ GenIdle
            /\ RunIdle /\ WpIdle /\ FpIdle /\ UiIdle /\ BulkIdle /\ VidIdle /\ SesIdle
NextJson == JsonNext
SpecJson == InitJson /\ [][NextJson]_vars


InitRun == RunInit /\ BatchIdle /\ RetryIdle /\ CacheIdle /\ LinksIdle /\ GenIdle
           /\ JsonIdle /\ WpIdle /\ FpIdle /\ UiIdle /\ BulkIdle /\ VidIdle /\ SesIdle
NextRun == RunNext
SpecRun == InitRun /\ [][NextRun]_vars

InitWp == WpInit /\ BatchIdle /\ RetryIdle /\ CacheIdle /\ LinksIdle /\ GenIdle
          /\ JsonIdle /\ RunIdle /\ FpIdle /\ UiIdle /\ BulkIdle /\ VidIdle /\ SesIdle
NextWp == WpNext
SpecWp == InitWp /\ [][NextWp]_vars

\* The two fetchers, one call of either
InitFetch == /\ \/ FpInit /\ WpOff
                \/ FpIdle /\ WpInit
             /\ BatchIdle /\ RetryIdle /\ CacheIdle /\ LinksIdle /\ GenIdle
             /\ JsonIdle /\ RunIdle /\ UiIdle /\ BulkIdle /\ VidIdle /\ SesIdle
NextFetch == FpNext \/ WpNext
SpecFetch == InitFetch /\ [][NextFetch]_vars

InitUi == UiInit /\ BatchIdle /\ RetryIdle /\ CacheIdle /\ LinksIdle /\ GenIdle
          /\ JsonIdle /\ RunIdle /\ WpIdle /\ FpIdle /\ BulkIdle /\ VidIdle /\ SesIdle
NextUi == UiNext
SpecUi == InitUi /\ [][NextUi]_vars

InitBulk == BulkInit /\ RetryIdle /\ CacheIdle /\ LinksIdle /\ GenIdle
            /\ JsonIdle /\ RunIdle /\ WpIdle /\ FpIdle /\ UiIdle /\ VidIdle /\ SesIdle
NextBulk == BulkNext
SpecBulk == InitBulk /\ [][NextBulk]_vars

InitVid == VidInit /\ BatchIdle /\ RetryIdle /\ CacheIdle /\ LinksIdle /\ GenIdle
           /\ JsonIdle /\ RunIdle /\ WpIdle /\ FpIdle /\ UiIdle /\ BulkIdle /\ SesIdle
NextVid == VidNext
SpecVid == InitVid /\ [][NextVid]_vars

InitSes == SesInit /\ BatchIdle /\ RetryIdle /\ CacheIdle /\ LinksIdle /\ GenIdle
           /\ JsonIdle /\ RunIdle /\ WpIdle /\ FpIdle /\ UiIdle /\ BulkIdle /\ VidIdle
NextSes == SesNext
SpecSes == InitSes /\ [][NextSes]_vars

=============================================================================
